---- MODULE Spec2Model ----
(***************************************************************************)
(* A model of the DSGVO-Checker: the compliance scorer                     *)
(* (compliance_checker.py), the batch driver (app.py), the text extractor  *)
(* (document_processor.py) and the protocol store (protocol_manager.py).   *)
(*                                                                         *)
(* Texts are sequences of characters.  Scores are the reals of the code    *)
(* taken exactly: a section score is an integer and an overall score is    *)
(* the fraction [num, den].  The progress tracker counts in twentieths of  *)
(* a step (one step of the code is 20 here), so that every value the code  *)
(* stores is a whole number.                                               *)
(***************************************************************************)
EXTENDS Integers, Sequences, FiniteSets, TLC

VARIABLES
  config,      \* the AppConfig singleton: [max_content_length]
  files,       \* the uploaded files handed to the batch, in submission order
  protocol,    \* the protocol mapping handed to the scorer
  language,    \* "Deutsch" or "English"
  responses,   \* which outcomes of agent.run_sync the environment offers
  mainPc,      \* where the caller (run_async_compliance_check) stands
  pc,          \* per file: where its process_single_file stands
  text_content,        \* per file: text_content
  prompt,      \* per file: the prompt handed to the model
  calls,       \* per file: how many times agent.run_sync was invoked
  outcome,     \* per file: how agent.run_sync ended (analysis_result or e)
  result,      \* per file: the value its future holds
  progress_tracker,     \* ProgressTracker: [total_steps, current_step]
  results,     \* the list run_async_compliance_check builds and returns
  disk,        \* the protocol file at the configured path
  store,       \* the last ProtocolManager call: [op, arg, ret, raised, logged]
  protocol_file,  \* ProtocolManager.protocol_file: which file the store uses
  cwd_disk,    \* the file gdpr_protocol.json of the working directory
  callers,     \* per caller of add_criterion/remove_criterion: its call
  emitted,     \* the progress values extract_text handed to its callback
  report,      \* the report page: its ReportData and what was rendered
  display,     \* the progress display thread: [pc, progress_info]
  app          \* the Streamlit script: [pc, page, shown]

vars == << config, files, protocol, language, responses, mainPc, pc, text_content,
           prompt, calls, outcome, result, progress_tracker, results, disk, store,
           protocol_file, cwd_disk, callers, emitted, report, display, app >>

scoreVars == << config, files, protocol, language, responses, mainPc, pc,
                text_content, prompt, calls, outcome, result, progress_tracker, results,
                display >>
storeVars == << disk, store >>
managerVars == << protocol_file, cwd_disk >>
editVars == << callers >>
extractVars == << emitted >>
reportVars == << report >>
appVars == << app >>

-----------------------------------------------------------------------------
(* Bounds of the model *)

MaxTextLen == 3
MaxFiles == 3
MaxCriteria == 2
MaxUnits == 3
MaxResults == 3
MaxBatch == 4
MaxPolled == 2

(* Program constants *)

max_workers == 3
chunk_size == 8192

-----------------------------------------------------------------------------
(* Characters and texts *)

Whitespace == {" ", "\n"}
Chars == Whitespace \cup {"a"}

RECURSIVE SeqsUpTo(_, _)
SeqsUpTo(S, n) ==
  IF n = 0 THEN {<< >>}
  ELSE LET shorter == SeqsUpTo(S, n - 1)
       IN shorter \cup {Append(s, x) : s \in {t \in shorter : Len(t) = n - 1}, x \in S}

Texts == SeqsUpTo(Chars, MaxTextLen)

RECURSIVE lstrip(_)
lstrip(s) ==
  IF s = << >> THEN s
  ELSE IF Head(s) \in Whitespace THEN lstrip(Tail(s)) ELSE s

RECURSIVE rstrip(_)
rstrip(s) ==
  IF s = << >> THEN s
  ELSE IF s[Len(s)] \in Whitespace THEN rstrip(SubSeq(s, 1, Len(s) - 1)) ELSE s

(* str.strip() *)
strip(s) == rstrip(lstrip(s))

-----------------------------------------------------------------------------
(* The scorer: compliance_checker.py *)

Languages == {"Deutsch", "English"}

TruncationMarker == "\n[Content truncated due to length]"

(* a variant of TruncateContent that cuts at the budget already (>= for >) *)
TruncateContentAtBudget(txt, max_chars) ==
  IF Len(txt) >= max_chars
    THEN Append(SubSeq(txt, 1, max_chars), TruncationMarker)
    ELSE txt

(* lines 95-98 of _create_analysis_prompt *)
TruncateContent(txt, max_chars) ==
  IF Len(txt) > max_chars
    THEN Append(SubSeq(txt, 1, max_chars), TruncationMarker)
    ELSE txt

(* the criteria listing: "\n{section}:\n" and one "- {criterion}\n" each *)
CriteriaListing(prot) ==
  [section \in DOMAIN prot |->
     [i \in 1..Len(prot[section]) |-> << "- ", prot[section][i], "\n" >>]]

_create_analysis_prompt(txt, prot, lang, max_chars) ==
  LET content == TruncateContent(txt, max_chars)
  IN IF lang = "Deutsch"
       THEN [intro |-> "Analysieren Sie das folgende Dokument auf DSGVO-Compliance",
             content |-> content,
             criteria |-> CriteriaListing(prot),
             requirements |-> "Bitte analysieren Sie das Dokument"]
       ELSE [intro |-> "Please analyze the following document for GDPR compliance",
             content |-> content,
             criteria |-> CriteriaListing(prot),
             requirements |-> "Please analyze the document"]

(* a variant of SectionResult without the upper bound (le=100) *)
ValidSectionResultNoUpperBound(sr) == sr.score >= 0

(* SectionResult: Field(..., ge=0, le=100) on score *)
SectionResult(sr) == sr.score >= 0 /\ sr.score <= 100

(* ComplianceAnalysis: every section result must validate *)
ComplianceAnalysis(output) ==
  \A section \in DOMAIN output.section_results :
     SectionResult(output.section_results[section])

RECURSIVE SumScores(_)
SumScores(section_results) ==
  IF DOMAIN section_results = {} THEN 0
  ELSE LET section == CHOOSE s \in DOMAIN section_results : TRUE
           rest == [s \in DOMAIN section_results \ {section} |-> section_results[s]]
       IN section_results[section].score + SumScores(rest)

Zero == [num |-> 0, den |-> 1]

(* a variant of _calculate_overall_score that divides by the number of sections
   of the protocol instead of the number of sections scored *)
CalculateOverallScoreByProtocol(section_results) ==
  IF DOMAIN section_results = {} THEN Zero
  ELSE [num |-> SumScores(section_results),
        den |-> Cardinality(DOMAIN protocol)]

_calculate_overall_score(section_results) ==
  IF DOMAIN section_results = {} THEN Zero
  ELSE [num |-> SumScores(section_results),
        den |-> Cardinality(DOMAIN section_results)]

NoSections == [section \in {} |-> 0]

(* a variant of _create_empty_result that ignores the language *)
CreateEmptyResultGermanOnly(filename, lang) ==
  [filename |-> filename, overall_score |-> Zero,
   section_results |-> NoSections,
   summary |-> << "Dokument ist leer oder konnte nicht verarbeitet werden" >>]

_create_empty_result(filename, lang) ==
  IF lang = "Deutsch"
    THEN [filename |-> filename, overall_score |-> Zero,
          section_results |-> NoSections,
          summary |-> << "Dokument ist leer oder konnte nicht verarbeitet werden" >>]
    ELSE [filename |-> filename, overall_score |-> Zero,
          section_results |-> NoSections,
          summary |-> << "Document is empty or could not be processed" >>]

(* a variant of _create_error_result that drops the error message *)
CreateErrorResultNoMessage(filename, error_message, lang) ==
  [filename |-> filename, overall_score |-> Zero,
   section_results |-> NoSections,
   summary |-> << IF lang = "Deutsch" THEN "Fehler bei der Verarbeitung: "
                  ELSE "Error during processing: " >>]

_create_error_result(filename, error_message, lang) ==
  IF lang = "Deutsch"
    THEN [filename |-> filename, overall_score |-> Zero,
          section_results |-> NoSections,
          summary |-> << "Fehler bei der Verarbeitung: ", error_message >>]
    ELSE [filename |-> filename, overall_score |-> Zero,
          section_results |-> NoSections,
          summary |-> << "Error during processing: ", error_message >>]

(* lines 73-86 of check_compliance: the result of a validated output *)
SuccessResult(filename, output) ==
  [filename |-> filename,
   overall_score |-> _calculate_overall_score(output.section_results),
   section_results |-> output.section_results,
   summary |-> << output.summary >>]

(* lines 69-90: what check_compliance returns once agent.run_sync has ended
   with outcome r: an exception of the call, an output that fails the
   validation of its output_type, or a validated output *)
ResultOfOutcome(filename, lang, r) ==
  IF r.kind = "raise" THEN _create_error_result(filename, r.error, lang)
  ELSE IF ~ComplianceAnalysis(r.output)
    THEN _create_error_result(filename, "validation error", lang)
    ELSE SuccessResult(filename, r.output)

-----------------------------------------------------------------------------
(* The protocol store: protocol_manager.py *)

_get_default_protocol ==
    "Identifikation personenbezogener Daten" :>
    << "Prüfung der Verarbeitung personenbezogener Daten",
       "Identifikation der Arten gesammelter personenbezogener Daten",
       "Überprüfung der Datensparsamkeit",
       "Prüfung auf besondere Kategorien personenbezogener Daten",
       "Verifizierung der Zweckbestimmung der Datenverarbeitung" >>
  @@
    "Rechtliche Grundlagen" :>
    << "Überprüfung der rechtlichen Grundlage für die Datenverarbeitung",
       "Prüfung der ordnungsgemäßen Einwilligung",
       "Dokumentation des berechtigten Interesses",
       "Verifizierung der vertraglichen Notwendigkeit",
       "Prüfung der gesetzlichen Verpflichtungen" >>
  @@
    "Rechte der betroffenen Person" :>
    << "Sicherstellung des Auskunftsrechts",
       "Prüfung der Berichtigungsverfahren",
       "Verifizierung des Löschungsrechts (Recht auf Vergessenwerden)",
       "Sicherstellung der Datenübertragbarkeit",
       "Prüfung der Widerspruchsverfahren",
       "Überprüfung der Einschränkungsrechte" >>
  @@
    "Datensicherheit" :>
    << "Verifizierung angemessener technischer Maßnahmen",
       "Prüfung organisatorischer Sicherheitsmaßnahmen",
       "Sicherstellung der Datenverschlüsselung bei Übertragung und Speicherung",
       "Verifizierung von Zugriffskontrollen und Authentifizierung",
       "Prüfung der Pseudonymisierung und Anonymisierung" >>
  @@
    "Datenaufbewahrung" :>
    << "Prüfung der Datenaufbewahrungsrichtlinien",
       "Verifizierung der Löschverfahren",
       "Sicherstellung gerechtfertigter Aufbewahrungsfristen",
       "Prüfung der Datenarchivierungspraktiken",
       "Überprüfung der automatisierten Löschung" >>
  @@
    "Datenweitergabe an Dritte" :>
    << "Verifizierung von Auftragsverarbeitungsverträgen",
       "Prüfung der Datenweitergabe an Dritte",
       "Sicherstellung angemessener Schutzmaßnahmen bei Übermittlungen",
       "Verifizierung der internationalen Datenübermittlung",
       "Prüfung der Standardvertragsklauseln" >>
  @@
    "Einwilligungsverwaltung" :>
    << "Prüfung der Einwilligungserhebung",
       "Verifizierung der Widerrufsmechanismen",
       "Sicherstellung der freiwilligen Einwilligung",
       "Prüfung der Einwilligungsdokumentation",
       "Überprüfung der altersgerechten Einwilligung" >>
  @@
    "Datenschutzverletzungen" :>
    << "Verifizierung der Erkennungsverfahren für Datenschutzverletzungen",
       "Prüfung der Benachrichtigungspflichten",
       "Sicherstellung von Incident-Response-Plänen",
       "Verifizierung der Dokumentationsverfahren für Verletzungen",
       "Prüfung der Meldung an Aufsichtsbehörden" >>
  @@
    "Medizinische Datenverarbeitung" :>
    << "Prüfung der ärztlichen Schweigepflicht",
       "Verifizierung der medizinischen Zweckbestimmung",
       "Sicherstellung der Qualitätssicherung in der Medizin",
       "Prüfung der Forschungszwecke in der Medizin",
       "Überprüfung der Gesundheitsdatenverarbeitung",
       "Verifizierung der medizinischen Notfallverarbeitung" >>
  @@
    "Daten von Minderjährigen" :>
    << "Prüfung der Altersverifizierung",
       "Verifizierung der elterlichen Einwilligung",
       "Sicherstellung des Kinderschutzes",
       "Prüfung der altersgerechten Informationsvermittlung",
       "Überprüfung der besonderen Schutzmaßnahmen",
       "Verifizierung der Risikobewertung für Minderjährige" >>
  @@
    "Forschungsdatenverarbeitung" :>
    << "Prüfung der wissenschaftlichen Forschungszwecke",
       "Verifizierung der Forschungsethik",
       "Sicherstellung der Forschungsfreiheit",
       "Prüfung der wissenschaftlichen Interessen",
       "Überprüfung der Forschungsdokumentation",
       "Verifizierung der Forschungsdatenarchivierung" >>
  @@
    "Öffentliche Verwaltung" :>
    << "Prüfung der behördlichen Aufgabenwahrnehmung",
       "Verifizierung der öffentlichen Interessen",
       "Sicherstellung der Transparenzpflichten",
       "Prüfung der behördlichen Informationspflichten",
       "Überprüfung der Verwaltungsverfahren",
       "Verifizierung der öffentlichen Sicherheit" >>
  @@
    "Beschäftigtendatenschutz" :>
    << "Prüfung der Beschäftigtendatenverarbeitung",
       "Verifizierung der betrieblichen Interessen",
       "Sicherstellung der Mitbestimmungsrechte",
       "Prüfung der Arbeitsplatzüberwachung",
       "Überprüfung der Beschäftigtendokumentation" >>
  @@
    "Marketing und Werbung" :>
    << "Prüfung der Direktwerbung",
       "Verifizierung der Profilbildung",
       "Sicherstellung der Werbeeinwilligung",
       "Prüfung der Tracking-Technologien",
       "Überprüfung der Marketingdatenverarbeitung" >>
  @@
    "Videoüberwachung" :>
    << "Prüfung der Überwachungszwecke",
       "Verifizierung der Kennzeichnungspflichten",
       "Sicherstellung der Verhältnismäßigkeit",
       "Prüfung der Aufbewahrungsfristen für Aufnahmen",
       "Überprüfung der Zugriffsberechtigungen" >>
  @@
    "Big Data und KI" :>
    << "Prüfung der automatisierten Entscheidungsfindung",
       "Verifizierung der Profilbildung",
       "Sicherstellung der Erklärbarkeit",
       "Prüfung der algorithmischen Transparenz",
       "Überprüfung der KI-Ethik",
       "Verifizierung der menschlichen Aufsicht" >>

-----------------------------------------------------------------------------
(* The text extractor: document_processor.py *)

(* An uploaded file: its name as the sequence of its parts ("." separates),
   whether its reader gets through it, and the text the reader finds. *)
Lower(part) ==
  CASE part = "PDF" -> "pdf"
    [] part = "TXT" -> "txt"
    [] part = "DOCX" -> "docx"
    [] OTHER -> part

RECURSIVE LastSegment(_)
(* split('.')[-1]: what follows the last "." (the whole name without one) *)
LastSegment(name) ==
  IF \E i \in 1..Len(name) : name[i] = "."
    THEN LastSegment(Tail(name))
    ELSE name

(* uploaded_file.name.lower().split('.')[-1] *)
FileExtension(name) == LastSegment([i \in 1..Len(name) |-> Lower(name[i])])

(* the three readers: each returns text_content.strip(), or "" from its own
   except clause when the library raises *)
_extract_from_pdf(file) == IF file.readable THEN strip(file.content) ELSE << >>
_extract_from_docx(file) == IF file.readable THEN strip(file.content) ELSE << >>
_extract_from_txt(file) == IF file.readable THEN strip(file.content) ELSE << >>

(* a variant of extract_text that reads a file of any other extension as
   plain text *)
ExtractTextAnyAsTxt(file) ==
  LET file_extension == FileExtension(file.name)
  IN IF file_extension = << "pdf" >> THEN _extract_from_pdf(file)
     ELSE IF file_extension \in {<< "docx" >>, << "doc" >>} THEN _extract_from_docx(file)
     ELSE _extract_from_txt(file)

SupportedExtensions == {<< "pdf" >>, << "docx" >>, << "doc" >>, << "txt" >>}

extract_text(file) ==
  LET file_extension == FileExtension(file.name)
  IN IF file_extension = << "pdf" >> THEN _extract_from_pdf(file)
     ELSE IF file_extension \in {<< "docx" >>, << "doc" >>} THEN _extract_from_docx(file)
     ELSE IF file_extension = << "txt" >> THEN _extract_from_txt(file)
     ELSE << >>

(* the last progress value extract_text hands to its callback, in tenths:
   0.1 before the dispatch, 0.2 when a reader starts, 0.9 when it ends *)
LastProgress(file) ==
  IF FileExtension(file.name) \notin SupportedExtensions THEN 1
  ELSE IF file.readable THEN 9 ELSE 2

-----------------------------------------------------------------------------
(* Inputs *)

OutSections == {"s1", "s2", "s3"}
RawScores == {-1, 0, 55, 100, 101}

RawSectionResults ==
  [score : RawScores, issues : {<< "i1" >>}, recommendations : {<< "r1" >>},
   references : {[c \in {"c1"} |-> << "p. 1" >>]}]

RawOutputs ==
  UNION {[summary : {"assessment"}, section_results : [S -> RawSectionResults]]
           : S \in SUBSET OutSections}

(* every outcome of agent.run_sync: the call raises, or it yields an output *)
AllResponses ==
  {[kind |-> "raise", error |-> "connection error"]}
    \cup {[kind |-> "output", output |-> o] : o \in RawOutputs}

BatchResponses ==
  {[kind |-> "raise", error |-> "connection error"]}
    \cup {[kind |-> "output", output |-> o] :
            o \in {r \in RawOutputs :
                     /\ DOMAIN r.section_results = {"s1"}
                     /\ r.section_results["s1"].score \in {-1, 55, 101}}}

(* what the model answers in a batch larger than the pool *)
PoolResponses ==
  {[kind |-> "raise", error |-> "connection error"]}
    \cup {[kind |-> "output", output |-> o] :
            o \in {r \in RawOutputs :
                     /\ DOMAIN r.section_results = {"s1"}
                     /\ r.section_results["s1"].score = 55}}

OfferedResponses ==
  IF responses = "all" THEN AllResponses
  ELSE IF responses = "pool" THEN PoolResponses
  ELSE BatchResponses

CheckProtocols ==
  { ("s1" :> << "c1" >>),
    ("s1" :> << "c1", "c2" >> @@ "s2" :> << >>) }

(* the files a batch is made of *)
BatchFiles ==
  { [name |-> << "a", ".", "pdf" >>, readable |-> TRUE, content |-> << " ", "a" >>],
    [name |-> << "b", ".", "TXT" >>, readable |-> FALSE, content |-> << "a" >>],
    [name |-> << "d", ".", "xyz" >>, readable |-> TRUE, content |-> << "a" >>] }

(* the files of a batch larger than the pool, each with a name of its own;
   every third, from the second on, cannot be read *)
PoolNames == << "a", "b", "c", "d", "e", "f" >>
PoolFiles(n) ==
  [i \in 1..n |->
     [name |-> << PoolNames[i], ".", "pdf" >>, readable |-> i % 3 # 2,
      content |-> << "a" >>]]

RECURSIVE SeqsOfLen(_, _)
SeqsOfLen(S, n) ==
  IF n = 0 THEN {<< >>}
  ELSE {Append(s, x) : s \in SeqsOfLen(S, n - 1), x \in S}

NoResult == [filename |-> << >>]
NoPrompt == [intro |-> ""]
NoOutcome == [kind |-> "none"]
NoTracker == [total_steps |-> 0, current_step |-> 0]
IdleStore == [op |-> "none", arg |-> << >>, ret |-> "none", raised |-> "none",
              logged |-> "none"]
NoFile == [kind |-> "missing", value |-> << >>]
CallerIds == {1, 2}
IdleCaller == [pc |-> "idle", op |-> "none", section |-> "", criterion |-> "",
               local |-> << >>, ret |-> "none", raised |-> "none"]
IdleCallers == [k \in CallerIds |-> IdleCaller]
NoReport == [format |-> "none"]
NoDisplay == [pc |-> "idle", progress_info |-> << >>]
Pages == {"Document Upload", "Protocol Management", "Compliance Check",
          "Report Generation"}
AppShowing(page) == [pc |-> "running", page |-> page, shown |-> << >>]

-----------------------------------------------------------------------------
(* The batch driver: app.py *)

Indices == 1..Len(files)

Running == {i \in Indices : pc[i] \in {"extract", "construct", "check", "invoke", "checked"}}

(* run_async_compliance_check, lines 109-145: the tracker is built, the
   display thread is started and every file is submitted to the pool *)
Submit ==
  /\ mainPc = "start"
  /\ progress_tracker' = [total_steps |-> Len(files) * 2 * 20, current_step |-> 0]
  /\ display' = [pc |-> "polling", progress_info |-> << >>]
  /\ pc' = [i \in Indices |-> "queued"]
  /\ mainPc' = "collect"
  /\ UNCHANGED << storeVars, managerVars, editVars, extractVars, reportVars,
                  appVars, config, files, protocol, language, responses, text_content, prompt,
                  calls, outcome, result, results >>

(* a variant of WorkerStart for a pool that starts a thread for every work
   item *)
WorkerStartUnbounded(i) ==
  /\ pc[i] = "queued"
  /\ \A j \in Indices : j < i => pc[j] # "queued"
  /\ progress_tracker' = [progress_tracker EXCEPT !.current_step = (i - 1) * 2 * 20]
  /\ pc' = [pc EXCEPT ![i] = "extract"]
  /\ UNCHANGED << storeVars, managerVars, editVars, extractVars, reportVars, display,
                  appVars, config, files, protocol, language, responses, mainPc, text_content,
                  prompt, calls, outcome, result, results >>

(* a pool thread takes the oldest queued work item; process_single_file,
   lines 63-67 *)
WorkerStart(i) ==
  /\ pc[i] = "queued"
  /\ \A j \in Indices : j < i => pc[j] # "queued"
  /\ Cardinality(Running) < max_workers
  /\ progress_tracker' = [progress_tracker EXCEPT !.current_step = (i - 1) * 2 * 20]
  /\ pc' = [pc EXCEPT ![i] = "extract"]
  /\ UNCHANGED << storeVars, managerVars, editVars, extractVars, reportVars, display,
                  appVars, config, files, protocol, language, responses, mainPc, text_content,
                  prompt, calls, outcome, result, results >>

(* process_single_file, lines 70-71: extract_text with its progress callback *)
DoExtractText(i) ==
  /\ pc[i] = "extract"
  /\ text_content' = [text_content EXCEPT ![i] = extract_text(files[i])]
  /\ progress_tracker' = [progress_tracker EXCEPT
                   !.current_step = (i - 1) * 2 * 20 + LastProgress(files[i])]
  /\ pc' = [pc EXCEPT ![i] = "construct"]
  /\ UNCHANGED << storeVars, managerVars, editVars, extractVars, reportVars, display,
                  appVars, config, files, protocol, language, responses, mainPc,
                  prompt, calls, outcome, result, results >>

(* process_single_file, lines 74-81: the progress update, then
   ComplianceChecker() builds its agent *)
ConstructChecker(i) ==
  /\ pc[i] = "construct"
  /\ progress_tracker' = [progress_tracker EXCEPT !.current_step = (i - 1) * 2 * 20 + 10]
  /\ pc' = [pc EXCEPT ![i] = "check"]
  /\ UNCHANGED << storeVars, managerVars, editVars, extractVars, reportVars, display,
                  appVars, config, files, protocol, language, responses, mainPc, text_content,
                  prompt, calls, outcome, result, results >>

(* process_single_file, lines 98-105: the constructor raised *)
ConstructCheckerFails(i) ==
  /\ pc[i] = "construct"
  /\ progress_tracker' = [progress_tracker EXCEPT !.current_step = (i - 1) * 2 * 20 + 10]
  /\ result' = [result EXCEPT ![i] =
                  [filename |-> files[i].name, overall_score |-> Zero,
                   section_results |-> NoSections,
                   summary |-> << "Error processing file: ", "agent error" >>]]
  /\ pc' = [pc EXCEPT ![i] = "caught"]
  /\ UNCHANGED << storeVars, managerVars, editVars, extractVars, reportVars, display,
                  appVars, config, files, protocol, language, responses, mainPc, text_content,
                  prompt, calls, outcome, results >>

(* a variant of CheckComplianceBegin that takes the sections out of the
   protocol as it lists them *)
CheckComplianceBeginConsumes(i) ==
  /\ pc[i] = "check"
  /\ IF strip(text_content[i]) = << >>
       THEN /\ result' = [result EXCEPT ![i] =
                            _create_empty_result(files[i].name, language)]
            /\ pc' = [pc EXCEPT ![i] = "checked"]
            /\ UNCHANGED << prompt, protocol >>
       ELSE /\ prompt' = [prompt EXCEPT ![i] =
                            _create_analysis_prompt(text_content[i], protocol, language,
                                                 config.max_content_length)]
            /\ protocol' = << >>
            /\ pc' = [pc EXCEPT ![i] = "invoke"]
            /\ UNCHANGED result
  /\ UNCHANGED << storeVars, managerVars, editVars, extractVars, reportVars, display,
                  appVars, config, files, language, responses, mainPc, text_content,
                  calls, outcome, progress_tracker, results >>

(* check_compliance, lines 59-64: the empty document returns at once, any
   other gets its prompt *)
CheckComplianceBegin(i) ==
  /\ pc[i] = "check"
  /\ IF strip(text_content[i]) = << >>
       THEN /\ result' = [result EXCEPT ![i] =
                            _create_empty_result(files[i].name, language)]
            /\ pc' = [pc EXCEPT ![i] = "checked"]
            /\ UNCHANGED prompt
       ELSE /\ prompt' = [prompt EXCEPT ![i] =
                            _create_analysis_prompt(text_content[i], protocol, language,
                                                 config.max_content_length)]
            /\ pc' = [pc EXCEPT ![i] = "invoke"]
            /\ UNCHANGED result
  /\ UNCHANGED << storeVars, managerVars, editVars, extractVars, reportVars, display,
                  appVars, config, files, protocol, language, responses, mainPc, text_content,
                  calls, outcome, progress_tracker, results >>

(* a variant of InvokeModel that calls the model again after a call that
   raised *)
InvokeModelRetries(i) ==
  /\ pc[i] = "invoke"
  /\ calls' = [calls EXCEPT ![i] = @ + 1]
  /\ \E r \in OfferedResponses :
       /\ outcome' = [outcome EXCEPT ![i] = r]
       /\ result' = [result EXCEPT ![i] = ResultOfOutcome(files[i].name, language, r)]
       /\ pc' = [pc EXCEPT ![i] =
                   IF r.kind = "raise" /\ calls[i] = 0 THEN "invoke" ELSE "checked"]
  /\ UNCHANGED << storeVars, managerVars, editVars, extractVars, reportVars, display,
                  appVars, config, files, protocol, language, responses, mainPc, text_content,
                  prompt, progress_tracker, results >>

(* check_compliance, lines 69-90: agent.run_sync(prompt) and what follows *)
InvokeModel(i) ==
  /\ pc[i] = "invoke"
  /\ calls' = [calls EXCEPT ![i] = @ + 1]
  /\ \E r \in OfferedResponses :
       /\ outcome' = [outcome EXCEPT ![i] = r]
       /\ result' = [result EXCEPT ![i] = ResultOfOutcome(files[i].name, language, r)]
  /\ pc' = [pc EXCEPT ![i] = "checked"]
  /\ UNCHANGED << storeVars, managerVars, editVars, extractVars, reportVars, display,
                  appVars, config, files, protocol, language, responses, mainPc, text_content,
                  prompt, progress_tracker, results >>

(* process_single_file, lines 90-96: the last progress update; the future
   holds the result *)
Completed(i) ==
  /\ pc[i] = "checked"
  /\ progress_tracker' = [progress_tracker EXCEPT !.current_step = (i - 1) * 2 * 20 + 20]
  /\ pc' = [pc EXCEPT ![i] = "done"]
  /\ UNCHANGED << storeVars, managerVars, editVars, extractVars, reportVars, display,
                  appVars, config, files, protocol, language, responses, mainPc, text_content,
                  prompt, calls, outcome, result, results >>

(* a variant of Collect that takes the futures as they complete *)
CollectAsCompleted ==
  /\ mainPc = "collect"
  /\ Len(results) < Len(files)
  /\ \E i \in Indices :
       /\ pc[i] \in {"done", "caught", "raised"}
       /\ \A k \in 1..Len(results) : results[k].filename # files[i].name
       /\ results' = Append(results,
             IF pc[i] = "raised"
               THEN [filename |-> files[i].name, overall_score |-> Zero,
                     section_results |-> NoSections,
                     summary |-> << "Error: ", "worker error" >>]
               ELSE result[i])
  /\ UNCHANGED << storeVars, managerVars, editVars, extractVars, reportVars, display,
                  appVars, config, files, protocol, language, responses, mainPc, pc,
                  text_content, prompt, calls, outcome, result, progress_tracker >>

(* run_async_compliance_check, lines 148-161: future.result() of the next
   future in submission order; a future that raised gets the error result *)
Collect ==
  /\ mainPc = "collect"
  /\ Len(results) < Len(files)
  /\ LET i == Len(results) + 1
     IN /\ pc[i] \in {"done", "caught", "raised"}
        /\ results' = Append(results,
             IF pc[i] = "raised"
               THEN [filename |-> files[i].name, overall_score |-> Zero,
                     section_results |-> NoSections,
                     summary |-> << "Error: ", "worker error" >>]
               ELSE result[i])
  /\ UNCHANGED << storeVars, managerVars, editVars, extractVars, reportVars, display,
                  appVars, config, files, protocol, language, responses, mainPc, pc,
                  text_content, prompt, calls, outcome, result, progress_tracker >>

(* a variant of Return that returns once the first result is collected *)
ReturnAfterFirst ==
  /\ mainPc = "collect"
  /\ Len(results) >= 1
  /\ mainPc' = "returned"
  /\ UNCHANGED << storeVars, managerVars, editVars, extractVars, reportVars, display,
                  appVars, config, files, protocol, language, responses, pc, text_content,
                  prompt, calls, outcome, result, progress_tracker, results >>

(* run_async_compliance_check, lines 162-167: the pool is shut down and the
   list returned *)
Return ==
  /\ mainPc = "collect"
  /\ Len(results) = Len(files)
  /\ \A i \in Indices : pc[i] \in {"done", "caught", "raised"}
  /\ mainPc' = "returned"
  /\ UNCHANGED << storeVars, managerVars, editVars, extractVars, reportVars, display,
                  appVars, config, files, protocol, language, responses, pc, text_content,
                  prompt, calls, outcome, result, progress_tracker, results >>

(* ProgressTracker.get_progress, lines 41-51: the snapshot taken under the
   lock *)
get_progress ==
  [current_step |-> progress_tracker.current_step,
   total_steps |-> progress_tracker.total_steps]

(* update_progress_display, lines 116-131: one round of the loop of the
   display thread: the snapshot, its copy in the session state, the sleep
   and the test that ends the loop *)
update_progress_display ==
  /\ display.pc = "polling"
  /\ LET progress_info == get_progress
     IN display' = [pc |-> IF progress_info.current_step >= progress_info.total_steps
                             THEN "stopped" ELSE "polling",
                    progress_info |-> << progress_info >>]
  /\ UNCHANGED << storeVars, managerVars, editVars, extractVars, reportVars,
                  appVars, config, files, protocol, language, responses, mainPc, pc, text_content,
                  prompt, calls, outcome, result, progress_tracker, results >>

-----------------------------------------------------------------------------
(* The start of the script: config.py, utils/proxy_validator.py and the top
   of app.py.  A string that is tested for a prefix is the sequence of its
   prefix and its rest; the temperature is counted in tenths. *)

startswith(str, prefixes) == str # << >> /\ str[1] \in prefixes

(* a variant of validate that does not look at the temperature *)
ValidateWithoutTemperature(c) ==
  IF c.openai_api_key = << >> THEN "OPENAI_API_KEY is required"
  ELSE IF ~startswith(c.openai_api_key, {"sk-"})
    THEN "OPENAI_API_KEY should start with 'sk-'"
  ELSE IF c.max_file_size <= 0 THEN "MAX_FILE_SIZE must be positive"
  ELSE IF c.allowed_file_types = << >> THEN "ALLOWED_FILE_TYPES cannot be empty"
  ELSE IF c.max_tokens <= 0 THEN "MAX_TOKENS must be positive"
  ELSE "ok"

(* AppConfig.validate, lines 42-65: the message of the ValueError it raises,
   or "ok" when it returns True *)
validate(c) ==
  IF c.openai_api_key = << >> THEN "OPENAI_API_KEY is required"
  ELSE IF ~startswith(c.openai_api_key, {"sk-"})
    THEN "OPENAI_API_KEY should start with 'sk-'"
  ELSE IF c.max_file_size <= 0 THEN "MAX_FILE_SIZE must be positive"
  ELSE IF c.allowed_file_types = << >> THEN "ALLOWED_FILE_TYPES cannot be empty"
  ELSE IF ~(0 <= c.temperature /\ c.temperature <= 20)
    THEN "TEMPERATURE must be between 0.0 and 2.0"
  ELSE IF c.max_tokens <= 0 THEN "MAX_TOKENS must be positive"
  ELSE "ok"

(* ProxyValidator.validate_proxy_config: the error message, or "ok";
   connects is how the request of test_proxy_connection ends *)
validate_proxy_config(c, connects) ==
  IF c.openai_api_key = << >> THEN "OPENAI_API_KEY is required"
  ELSE IF c.openai_base_url = << >> THEN "ok"
  ELSE IF ~startswith(c.openai_base_url, {"http://", "https://"})
    THEN "OPENAI_BASE_URL must be a valid HTTP/HTTPS URL"
  ELSE IF ~connects THEN "Proxy validation failed: "
  ELSE "ok"

Booting == [pc |-> "boot", page |-> "none", shown |-> << >>]
Halted(kind, message) == [pc |-> "halted", page |-> "none", shown |-> << kind, message >>]

(* app.py, lines 169-174: config.validate() raises; st.error and st.stop *)
StartupConfigError ==
  /\ app.pc = "boot"
  /\ validate(config) # "ok"
  /\ app' = Halted("Configuration error: ", validate(config))
  /\ UNCHANGED << storeVars, managerVars, editVars, extractVars, reportVars, scoreVars >>

(* app.py, lines 176-181: the proxy configuration is not valid; st.error and
   st.stop *)
StartupProxyError(connects) ==
  /\ app.pc = "boot"
  /\ validate(config) = "ok"
  /\ validate_proxy_config(config, connects) # "ok"
  /\ app' = Halted("Proxy configuration error: ", validate_proxy_config(config, connects))
  /\ UNCHANGED << storeVars, managerVars, editVars, extractVars, reportVars, scoreVars >>

(* app.py, lines 183-242: both validations passed; main() shows the first
   page *)
StartupMain(connects) ==
  /\ app.pc = "boot"
  /\ validate(config) = "ok"
  /\ validate_proxy_config(config, connects) = "ok"
  /\ app' = AppShowing("Document Upload")
  /\ UNCHANGED << storeVars, managerVars, editVars, extractVars, reportVars, scoreVars >>

(* main, lines 208-242: the page chosen in the sidebar is shown *)
SelectPage(page) ==
  /\ app.pc = "running"
  /\ app' = AppShowing(page)
  /\ UNCHANGED << storeVars, managerVars, editVars, extractVars, reportVars, scoreVars >>

(* show_document_upload, lines 244-281: the valid files of an upload are
   kept in the session *)
AcceptUpload(valid_files) ==
  /\ app.pc = "running"
  /\ app.page = "Document Upload"
  /\ mainPc = "start"
  /\ valid_files # << >>
  /\ files' = valid_files
  /\ app' = [app EXCEPT !.shown = << "Uploaded valid document(s)" >>]
  /\ UNCHANGED << storeVars, managerVars, editVars, extractVars, reportVars,
                  config, protocol, language, responses, mainPc, pc, text_content,
                  prompt, calls, outcome, result, progress_tracker, results, display >>

(* show_compliance_check, lines 381-443: with files in the session the
   button starts the batch *)
StartComplianceCheck ==
  /\ app.pc = "running"
  /\ app.page = "Compliance Check"
  /\ files # << >>
  /\ Submit

-----------------------------------------------------------------------------
(* The protocol store: its file and its operations *)

StoreSections == {"s1", "s2"}
Criteria == {"c1", " "}

(* the protocols handed to the store: any of the sections, "s1" with up to
   MaxCriteria criteria and "s2" with at most one *)
StoreProtocols ==
  UNION {{p \in [S -> SeqsUpTo(Criteria, MaxCriteria)] :
            "s2" \in S => Len(p["s2"]) <= 1} : S \in SUBSET StoreSections}

(* The text json.dump writes, as its sequence of tokens: the punctuation of
   JSON and the string literals.  indent=2 adds whitespace between tokens
   only, and ensure_ascii=False writes every character of a string as it
   is. *)
Punct(c) == [t |-> "punct", v |-> c]
Str(s) == [t |-> "str", v |-> s]

(* the keys of a dict, one after the other *)
RECURSIVE KeysOf(_)
KeysOf(S) ==
  IF S = {} THEN << >>
  ELSE LET k == CHOOSE x \in S : TRUE IN << k >> \o KeysOf(S \ {k})

(* the elements of a list, "," between them *)
RECURSIVE DumpItems(_, _)
DumpItems(items, i) ==
  IF i > Len(items) THEN << >>
  ELSE (IF i > 1 THEN << Punct(",") >> ELSE << >>)
         \o << Str(items[i]) >> \o DumpItems(items, i + 1)

(* the members of a dict: "key": [ ... ], "," between them *)
RECURSIVE DumpMembers(_, _, _)
DumpMembers(p, keys, i) ==
  IF i > Len(keys) THEN << >>
  ELSE (IF i > 1 THEN << Punct(",") >> ELSE << >>)
         \o << Str(keys[i]), Punct(":"), Punct("[") >>
         \o DumpItems(p[keys[i]], 1)
         \o << Punct("]") >>
         \o DumpMembers(p, keys, i + 1)

(* a variant of json_dump that writes the criteria of a section last to
   first *)
JsonDumpReversed(p) ==
  LET rev(items) == [i \in 1..Len(items) |-> items[Len(items) + 1 - i]]
      q == [k \in DOMAIN p |-> rev(p[k])]
  IN << Punct("{") >> \o DumpMembers(q, KeysOf(DOMAIN q), 1) \o << Punct("}") >>

(* json.dump(protocol, f, indent=2, ensure_ascii=False) *)
json_dump(p) ==
  << Punct("{") >> \o DumpMembers(p, KeysOf(DOMAIN p), 1) \o << Punct("}") >>

(* json.load: the elements of a list from token i on, up to its "]" *)
RECURSIVE ParseItems(_, _, _)
ParseItems(toks, i, acc) ==
  IF toks[i] = Punct("]") THEN [value |-> acc, next |-> i + 1]
  ELSE IF toks[i] = Punct(",") THEN ParseItems(toks, i + 1, acc)
  ELSE ParseItems(toks, i + 1, Append(acc, toks[i].v))

(* json.load: the members of a dict from token i on, up to its "}"; a key
   that comes again replaces the earlier one *)
RECURSIVE ParseMembers(_, _, _)
ParseMembers(toks, i, acc) ==
  IF toks[i] = Punct("}") THEN acc
  ELSE IF toks[i] = Punct(",") THEN ParseMembers(toks, i + 1, acc)
  ELSE LET arr == ParseItems(toks, i + 3, << >>)
       IN ParseMembers(toks, arr.next, (toks[i].v :> arr.value) @@ acc)

(* json.load(f): a JSON object gives a dict, a JSON array a list *)
json_load(toks) ==
  IF toks[1] = Punct("[") THEN ParseItems(toks, 2, << >>).value
  ELSE ParseMembers(toks, 2, << >>)

(* A protocol file is missing, holds a JSON document (its text), holds text
   that is not JSON (an empty or cut-off file), or holds bytes that are not
   UTF-8. *)
JsonFile(value) == [kind |-> "json", value |-> value]
TextFile == [kind |-> "text", value |-> << >>]
BytesFile == [kind |-> "bytes", value |-> << >>]

(* a file whose JSON document is the empty array, [] *)
ListFile == JsonFile(<< Punct("["), Punct("]") >>)

(* the loaded JSON document is a dict *)
IsDict(file) == IF file.kind = "json" THEN file.value[1] = Punct("{") ELSE TRUE

FileStates ==
  {NoFile, TextFile, BytesFile, ListFile, JsonFile(json_dump(_get_default_protocol))}
    \cup {JsonFile(json_dump(p)) : p \in StoreProtocols}

(* self.protocol_file: the configured path, or gdpr_protocol.json of the
   working directory once _ensure_protocol_file_exists has fallen back *)
TheFile == IF protocol_file = "fallback" THEN cwd_disk ELSE disk

WriteFile(file) ==
  IF protocol_file = "fallback"
  THEN cwd_disk' = file /\ UNCHANGED disk
  ELSE disk' = file /\ UNCHANGED cwd_disk

(* load_protocol, lines 33-39: open(..., 'r', encoding='utf-8') and
   json.load; FileNotFoundError and JSONDecodeError are caught, and nothing
   else is *)
LoadRaises(file) == IF file.kind = "bytes" THEN "UnicodeDecodeError" ELSE "none"

(* a variant of LoadValue that gives an empty protocol, not the default one,
   when the file cannot be used *)
LoadValueEmptyOnError(file) ==
  IF file.kind = "json" THEN json_load(file.value) ELSE << >>

LoadValue(file) ==
  IF file.kind = "json" THEN json_load(file.value)
  ELSE IF file.kind \in {"missing", "text"} THEN _get_default_protocol
  ELSE << >>

load_protocol ==
  /\ protocol_file # "unset"
  /\ store' = [op |-> "load_protocol", arg |-> << >>, ret |-> LoadValue(TheFile),
               raised |-> LoadRaises(TheFile), logged |-> "none"]
  /\ UNCHANGED << disk, managerVars, editVars, extractVars, reportVars, scoreVars, appVars >>

(* save_protocol, lines 51-57: open(..., 'w') and json.dump *)
save_protocol(p) ==
  /\ protocol_file # "unset"
  /\ WriteFile(JsonFile(json_dump(p)))
  /\ store' = [op |-> "save_protocol", arg |-> p, ret |-> TRUE,
               raised |-> "none", logged |-> "none"]
  /\ UNCHANGED << protocol_file, editVars, extractVars, reportVars, scoreVars, appVars >>

(* open raises (the file cannot be written): nothing is written, the
   exception is logged *)
SaveProtocolOpenFails(p) ==
  /\ protocol_file # "unset"
  /\ store' = [op |-> "save_protocol", arg |-> p, ret |-> FALSE,
               raised |-> "none", logged |-> "open"]
  /\ UNCHANGED << disk, managerVars, editVars, extractVars, reportVars, scoreVars, appVars >>

(* a variant of SaveProtocolWriteFails that lets the exception go to the
   caller *)
SaveProtocolWriteFailsRaises(p) ==
  /\ protocol_file # "unset"
  /\ WriteFile(TextFile)
  /\ store' = [op |-> "save_protocol", arg |-> p, ret |-> "none",
               raised |-> "OSError", logged |-> "none"]
  /\ UNCHANGED << protocol_file, editVars, extractVars, reportVars, scoreVars, appVars >>

(* json.dump raises (the disk is full, a value cannot be serialized or
   encoded) after open(..., 'w') has emptied the file: the file is left cut
   off, the exception is logged *)
SaveProtocolWriteFails(p) ==
  /\ protocol_file # "unset"
  /\ WriteFile(TextFile)
  /\ store' = [op |-> "save_protocol", arg |-> p, ret |-> FALSE,
               raised |-> "none", logged |-> "write"]
  /\ UNCHANGED << protocol_file, editVars, extractVars, reportVars, scoreVars, appVars >>

(* the sections get_criteria is asked for: stored ones and absent ones *)
QueriedSections == StoreSections \cup {"s3", "Datensicherheit"}

(* get_criteria, lines 262-263: load_protocol().get(section, []); a list
   has no get *)
get_criteria(section) ==
  /\ protocol_file # "unset"
  /\ LET loaded == LoadValue(TheFile)
         raises == IF LoadRaises(TheFile) # "none" THEN LoadRaises(TheFile)
                   ELSE IF ~IsDict(TheFile) THEN "AttributeError"
                   ELSE "none"
     IN store' = [op |-> "get_criteria", arg |-> section,
                  ret |-> IF raises # "none" THEN "none"
                          ELSE IF section \in DOMAIN loaded THEN loaded[section]
                          ELSE << >>,
                  raised |-> raises, logged |-> "none"]
  /\ UNCHANGED << disk, managerVars, editVars, extractVars, reportVars, scoreVars, appVars >>

(* what save_protocol(p) leaves in a file: the whole text, the file as it
   was when open raises, a cut-off file when the write raises *)
SaveOutcomes == {"written", "open fails", "write fails"}

SaveResult(file, p, how) ==
  IF how = "written" THEN JsonFile(json_dump(p))
  ELSE IF how = "open fails" THEN file
  ELSE TextFile

SaveLogged(how) ==
  IF how = "written" THEN "none" ELSE IF how = "open fails" THEN "open" ELSE "write"

(* __init__, lines 22-24, with _ensure_protocol_file_exists, lines 61-67:
   the file exists at the configured path, nothing is written *)
EnsureFileExists ==
  /\ protocol_file = "unset"
  /\ disk.kind # "missing"
  /\ protocol_file' = "configured"
  /\ store' = [op |-> "__init__", arg |-> << >>, ret |-> "none", raised |-> "none",
               logged |-> "none"]
  /\ UNCHANGED << disk, cwd_disk, editVars, extractVars, reportVars, scoreVars, appVars >>

(* a variant of EnsureFileMissing that does not look whether the file
   exists *)
EnsureAlwaysSeeds(how) ==
  /\ protocol_file = "unset"
  /\ protocol_file' = "configured"
  /\ disk' = SaveResult(disk, _get_default_protocol, how)
  /\ store' = [op |-> "__init__", arg |-> << >>, ret |-> "none", raised |-> "none",
               logged |-> SaveLogged(how)]
  /\ UNCHANGED << cwd_disk, editVars, extractVars, reportVars, scoreVars, appVars >>

(* lines 61-69: no file at the configured path (its directory exists or
   os.makedirs creates it): save_protocol(default_protocol), whose return
   value is not looked at *)
EnsureFileMissing(how) ==
  /\ protocol_file = "unset"
  /\ disk.kind = "missing"
  /\ protocol_file' = "configured"
  /\ disk' = SaveResult(disk, _get_default_protocol, how)
  /\ store' = [op |-> "__init__", arg |-> << >>, ret |-> "none", raised |-> "none",
               logged |-> SaveLogged(how)]
  /\ UNCHANGED << cwd_disk, editVars, extractVars, reportVars, scoreVars, appVars >>

(* lines 70-76: os.makedirs raises (the directory of the configured path is
   missing and cannot be created): the store falls back to
   gdpr_protocol.json of the working directory and seeds that file if it
   does not exist *)
EnsureFallsBack(how) ==
  /\ protocol_file = "unset"
  /\ disk.kind = "missing"
  /\ protocol_file' = "fallback"
  /\ IF cwd_disk.kind = "missing"
     THEN /\ cwd_disk' = SaveResult(cwd_disk, _get_default_protocol, how)
          /\ store' = [op |-> "__init__", arg |-> << >>, ret |-> "none",
                       raised |-> "none", logged |-> SaveLogged(how)]
     ELSE /\ how = "written"
          /\ cwd_disk' = cwd_disk
          /\ store' = [op |-> "__init__", arg |-> << >>, ret |-> "none",
                       raised |-> "none", logged |-> "makedirs"]
  /\ UNCHANGED << disk, editVars, extractVars, reportVars, scoreVars, appVars >>

-----------------------------------------------------------------------------
(* The protocol store: add_criterion, remove_criterion and the protocol page.
   A call of add_criterion or remove_criterion reads the file, works on its
   own copy and writes the file; another caller may run between the two.
   Every caller makes one call. *)

Range(seq) == {seq[i] : i \in DOMAIN seq}

(* list.remove(x): the first occurrence goes *)
RemoveFirst(seq, x) ==
  LET i == CHOOSE j \in DOMAIN seq : seq[j] = x /\ \A h \in 1..(j - 1) : seq[h] # x
  IN [h \in 1..(Len(seq) - 1) |-> IF h < i THEN seq[h] ELSE seq[h + 1]]

CallReturns(k, op, section, criterion, ret, raised) ==
  callers' = [callers EXCEPT ![k] =
    [pc |-> "idle", op |-> op, section |-> section, criterion |-> criterion,
     local |-> << >>, ret |-> ret, raised |-> raised]]

CallSaves(k, op, section, criterion, local) ==
  callers' = [callers EXCEPT ![k] =
    [pc |-> "save", op |-> op, section |-> section, criterion |-> criterion,
     local |-> local, ret |-> "none", raised |-> "none"]]

(* a variant of add_criterion that appends the criterion whether the section
   holds it or not *)
AddCriterionAlways(k, section, criterion) ==
  /\ callers[k].pc = "idle"
  /\ callers[k].op = "none"
  /\ protocol_file # "unset"
  /\ IF LoadRaises(TheFile) # "none"
     THEN CallReturns(k, "add_criterion", section, criterion, "none", LoadRaises(TheFile))
     ELSE IF ~IsDict(TheFile)
     THEN CallReturns(k, "add_criterion", section, criterion, "none", "TypeError")
     ELSE LET loaded == LoadValue(TheFile)
              withSection == IF section \in DOMAIN loaded THEN loaded
                             ELSE (section :> << >>) @@ loaded
          IN CallSaves(k, "add_criterion", section, criterion,
                       [withSection EXCEPT ![section] = Append(@, criterion)])
  /\ UNCHANGED << storeVars, managerVars, extractVars, reportVars, scoreVars, appVars >>

(* add_criterion, lines 212-218 and 220-221: load_protocol, the section is
   created when absent, the criterion is appended unless the section holds
   it; a file that is not UTF-8 makes load_protocol raise, a JSON array
   makes protocol[section] = [] raise *)
add_criterion(k, section, criterion) ==
  /\ callers[k].pc = "idle"
  /\ callers[k].op = "none"
  /\ protocol_file # "unset"
  /\ IF LoadRaises(TheFile) # "none"
     THEN CallReturns(k, "add_criterion", section, criterion, "none", LoadRaises(TheFile))
     ELSE IF ~IsDict(TheFile)
     THEN CallReturns(k, "add_criterion", section, criterion, "none", "TypeError")
     ELSE LET loaded == LoadValue(TheFile)
              withSection == IF section \in DOMAIN loaded THEN loaded
                             ELSE (section :> << >>) @@ loaded
          IN IF criterion \in Range(withSection[section])
             THEN CallReturns(k, "add_criterion", section, criterion, FALSE, "none")
             ELSE CallSaves(k, "add_criterion", section, criterion,
                         [withSection EXCEPT ![section] = Append(@, criterion)])
  /\ UNCHANGED << storeVars, managerVars, extractVars, reportVars, scoreVars, appVars >>

(* a variant of AddCriterionSave that reads the file again and appends the
   criterion to what the file holds now *)
AddCriterionSaveMerging(k, how) ==
  /\ callers[k].pc = "save"
  /\ callers[k].op = "add_criterion"
  /\ LET now == IF TheFile.kind = "json" /\ IsDict(TheFile) THEN LoadValue(TheFile)
                ELSE callers[k].local
         section == callers[k].section
         withSection == IF section \in DOMAIN now THEN now
                        ELSE (section :> << >>) @@ now
     IN WriteFile(SaveResult(TheFile,
          [withSection EXCEPT ![section] = Append(@, callers[k].criterion)], how))
  /\ CallReturns(k, "add_criterion", callers[k].section, callers[k].criterion,
              how = "written", "none")
  /\ UNCHANGED << store, protocol_file, extractVars, reportVars, scoreVars, appVars >>

(* add_criterion, line 219: return self.save_protocol(protocol) *)
AddCriterionSave(k, how) ==
  /\ callers[k].pc = "save"
  /\ callers[k].op = "add_criterion"
  /\ WriteFile(SaveResult(TheFile, callers[k].local, how))
  /\ CallReturns(k, "add_criterion", callers[k].section, callers[k].criterion,
              how = "written", "none")
  /\ UNCHANGED << store, protocol_file, extractVars, reportVars, scoreVars, appVars >>

(* remove_criterion, lines 234-237 and 239-240: load_protocol, the first
   occurrence of the criterion is removed when the section holds it; a JSON
   array holds no section *)
remove_criterion(k, section, criterion) ==
  /\ callers[k].pc = "idle"
  /\ callers[k].op = "none"
  /\ protocol_file # "unset"
  /\ IF LoadRaises(TheFile) # "none"
     THEN CallReturns(k, "remove_criterion", section, criterion, "none", LoadRaises(TheFile))
     ELSE LET loaded == LoadValue(TheFile)
          IN IF IsDict(TheFile) /\ section \in DOMAIN loaded
                /\ criterion \in Range(loaded[section])
             THEN CallSaves(k, "remove_criterion", section, criterion,
                         [loaded EXCEPT ![section] = RemoveFirst(@, criterion)])
             ELSE CallReturns(k, "remove_criterion", section, criterion, FALSE, "none")
  /\ UNCHANGED << storeVars, managerVars, extractVars, reportVars, scoreVars, appVars >>

(* remove_criterion, line 238: return self.save_protocol(protocol) *)
RemoveCriterionSave(k, how) ==
  /\ callers[k].pc = "save"
  /\ callers[k].op = "remove_criterion"
  /\ WriteFile(SaveResult(TheFile, callers[k].local, how))
  /\ CallReturns(k, "remove_criterion", callers[k].section, callers[k].criterion,
              how = "written", "none")
  /\ UNCHANGED << store, protocol_file, extractVars, reportVars, scoreVars, appVars >>

(* show_protocol_management, lines 321-330: the sections of the page *)
FixedSections ==
  {"Personal Data Identification", "Legal Basis", "Data Subject Rights",
   "Data Security", "Data Retention", "Third Party Sharing",
   "Consent Management", "Data Breach Procedures"}

(* line 365: [c for c in criteria_list if c.strip()] *)
RECURSIVE DropBlank(_)
DropBlank(criteria_list) ==
  IF criteria_list = << >> THEN << >>
  ELSE (IF criteria_list[1] \in {"", " "} THEN << >> ELSE << criteria_list[1] >>)
         \o DropBlank(Tail(criteria_list))

(* a variant of SaveProtocolPage that keeps the sections the page does not
   show *)
SaveProtocolPageMerging(blanked, new_criterion, how) ==
  /\ protocol_file # "unset"
  /\ LoadRaises(TheFile) = "none"
  /\ IsDict(TheFile)
  /\ LET loaded == LoadValue(TheFile)
         existing_criteria(section) ==
           IF section \in DOMAIN loaded THEN loaded[section] ELSE << >>
         inputs(section) ==
           IF section = "Legal Basis" /\ blanked
           THEN [i \in 1..Len(existing_criteria(section)) |-> " "]
           ELSE existing_criteria(section)
         criteria_list(section) ==
           IF section = "Legal Basis" /\ new_criterion # ""
           THEN Append(inputs(section), new_criterion)
           ELSE inputs(section)
         updated_protocol ==
           [section \in FixedSections \cup DOMAIN loaded |->
              IF section \in FixedSections THEN DropBlank(criteria_list(section))
              ELSE loaded[section]]
     IN /\ Len(existing_criteria("Legal Basis")) < MaxCriteria
        /\ WriteFile(SaveResult(TheFile, updated_protocol, how))
        /\ store' = [op |-> "save_protocol", arg |-> updated_protocol,
                     ret |-> (how = "written"), raised |-> "none",
                     logged |-> SaveLogged(how)]
  /\ app' = [app EXCEPT !.shown = << "Protocol saved successfully!" >>]
  /\ UNCHANGED << protocol_file, editVars, extractVars, reportVars, scoreVars >>

(* show_protocol_management, lines 315-369, one run of the page with the
   save button pressed: the protocol is loaded, every section of the page
   shows one text input per stored criterion and one for a new criterion,
   and what the inputs hold, blank ones dropped, is saved; st.success comes
   next, whatever save_protocol returned.  The user blanks the inputs of
   "Legal Basis" or leaves them, and types new_criterion there or leaves it
   empty. *)
SaveProtocolPage(blanked, new_criterion, how) ==
  /\ protocol_file # "unset"
  /\ LoadRaises(TheFile) = "none"
  /\ IsDict(TheFile)
  /\ LET loaded == LoadValue(TheFile)
         existing_criteria(section) ==
           IF section \in DOMAIN loaded THEN loaded[section] ELSE << >>
         inputs(section) ==
           IF section = "Legal Basis" /\ blanked
           THEN [i \in 1..Len(existing_criteria(section)) |-> " "]
           ELSE existing_criteria(section)
         criteria_list(section) ==
           IF section = "Legal Basis" /\ new_criterion # ""
           THEN Append(inputs(section), new_criterion)
           ELSE inputs(section)
         updated_protocol ==
           [section \in FixedSections |-> DropBlank(criteria_list(section))]
     IN /\ Len(existing_criteria("Legal Basis")) < MaxCriteria
        /\ WriteFile(SaveResult(TheFile, updated_protocol, how))
        /\ store' = [op |-> "save_protocol", arg |-> updated_protocol,
                     ret |-> (how = "written"), raised |-> "none",
                     logged |-> SaveLogged(how)]
  /\ app' = [app EXCEPT !.shown = << "Protocol saved successfully!" >>]
  /\ UNCHANGED << protocol_file, editVars, extractVars, reportVars, scoreVars >>

-----------------------------------------------------------------------------
(* The text extractor: the progress values of one extract_text call.  A
   progress value is the fraction [num, den].  A file has a size (the pages
   of a PDF, the paragraphs of a Word document, the bytes of a text file);
   a file that is not readable makes its reader raise at raises_at: 0 is
   the opening of the file, j is its j-th page, paragraph or chunk. *)

RECURSIVE GCD(_, _)
GCD(a, b) == IF b = 0 THEN a ELSE GCD(b, a % b)

(* the value num / den, in lowest terms *)
Frac(num, den) == [num |-> num \div GCD(num, den), den |-> den \div GCD(num, den)]

Emit(value) == emitted' = Append(emitted, value)

(* the chunks uploaded_file.read(chunk_size) yields *)
Chunks(size) == (size + chunk_size - 1) \div chunk_size

RaisesAt(file, j) == ~file.readable /\ file.raises_at = j

(* extract_text, lines 31-45: the first callback and the dispatch on the
   extension; an unsupported extension returns "" *)
ExtractTextBegin(i) ==
  /\ pc[i] = "extract"
  /\ Emit(Frac(1, 10))
  /\ IF FileExtension(files[i].name) \in SupportedExtensions
     THEN /\ pc' = [pc EXCEPT ![i] = "reading"]
          /\ UNCHANGED text_content
     ELSE /\ pc' = [pc EXCEPT ![i] = "extracted"]
          /\ text_content' = [text_content EXCEPT ![i] = extract_text(files[i])]
  /\ UNCHANGED << storeVars, managerVars, editVars, reportVars, display, appVars, config, files, protocol,
                  language, responses, mainPc, prompt, calls, outcome, result,
                  progress_tracker, results >>

(* the reader has ended: it returns text_content.strip(), or "" from its
   except clause *)
ReaderReturns(i) ==
  /\ pc' = [pc EXCEPT ![i] = "extracted"]
  /\ text_content' = [text_content EXCEPT ![i] = extract_text(files[i])]

ReaderGoesOn == UNCHANGED << pc, text_content >>

(* the next callback of a reader that goes page by page (paragraph by
   paragraph): 0.2, then the file is opened; 0.3; for every page
   0.3 + (page_num / total_pages) * 0.6, then the page is read; 0.9 *)
PagedReaderStep(i) ==
  LET total_pages == files[i].size
      page_num == Len(emitted) - 3
  IN /\ pc[i] = "reading"
     /\ IF Len(emitted) = 1
        THEN /\ Emit(Frac(2, 10))
             /\ IF RaisesAt(files[i], 0) THEN ReaderReturns(i) ELSE ReaderGoesOn
        ELSE IF Len(emitted) = 2
        THEN Emit(Frac(3, 10)) /\ ReaderGoesOn
        ELSE IF page_num < total_pages
        THEN /\ Emit(Frac(3 * total_pages + 6 * page_num, 10 * total_pages))
             /\ IF RaisesAt(files[i], page_num + 1)
                THEN ReaderReturns(i) ELSE ReaderGoesOn
        ELSE Emit(Frac(9, 10)) /\ ReaderReturns(i)
     /\ UNCHANGED << storeVars, managerVars, editVars, reportVars, display, appVars, config, files,
                     protocol, language, responses, mainPc, prompt, calls, outcome,
                     result, progress_tracker, results >>

(* _extract_from_pdf, lines 52-82 *)
ExtractFromPdfStep(i) ==
  /\ FileExtension(files[i].name) = << "pdf" >>
  /\ PagedReaderStep(i)

(* _extract_from_docx, lines 86-114 *)
ExtractFromDocxStep(i) ==
  /\ FileExtension(files[i].name) \in {<< "docx" >>, << "doc" >>}
  /\ PagedReaderStep(i)

(* _extract_from_txt, lines 118-149: 0.2, then seek(0); for every chunk the
   chunk is read and decoded, then 0.2 + (bytes_read / total_size) * 0.7;
   0.9 *)
ExtractFromTxtStep(i) ==
  LET total_size == files[i].size
      chunk == Len(emitted) - 1
      bytes_read == IF chunk * chunk_size < total_size THEN chunk * chunk_size
                    ELSE total_size
  IN /\ pc[i] = "reading"
     /\ FileExtension(files[i].name) = << "txt" >>
     /\ IF Len(emitted) = 1
        THEN /\ Emit(Frac(2, 10))
             /\ IF RaisesAt(files[i], 0) THEN ReaderReturns(i) ELSE ReaderGoesOn
        ELSE IF chunk <= Chunks(total_size)
        THEN IF RaisesAt(files[i], chunk)
             THEN UNCHANGED emitted /\ ReaderReturns(i)
             ELSE /\ Emit(Frac(2 * total_size + 7 * bytes_read, 10 * total_size))
                  /\ ReaderGoesOn
        ELSE Emit(Frac(9, 10)) /\ ReaderReturns(i)
     /\ UNCHANGED << storeVars, managerVars, editVars, reportVars, display, appVars, config, files,
                     protocol, language, responses, mainPc, prompt, calls, outcome,
                     result, progress_tracker, results >>

(* The text reader with the bytes of the upload spelled out.  A text is the
   sequence of its runs, a run being n times the same character; in UTF-8 a
   run takes n times the width of its character, so the bytes of a file are
   its runs laid end to end.  "U+00E9", "U+20AC" and "U+1F600" stand for a
   character of two, of three and of four bytes. *)
Width(ch) ==
  CASE ch \in {"a", " "} -> 1
    [] ch = "U+00E9" -> 2
    [] ch = "U+20AC" -> 3
    [] OTHER -> 4

Run(ch, n) == [ch |-> ch, n |-> n]

(* text_content += ...: two runs of one character that meet are one run *)
Join(s, t) ==
  IF s = << >> THEN t
  ELSE IF t = << >> THEN s
  ELSE IF s[Len(s)].ch = t[1].ch
    THEN SubSeq(s, 1, Len(s) - 1) \o << Run(t[1].ch, s[Len(s)].n + t[1].n) >> \o Tail(t)
  ELSE s \o t

RECURSIVE ByteLen(_)
ByteLen(bytes) ==
  IF bytes = << >> THEN 0
  ELSE Width(bytes[1].ch) * bytes[1].n + ByteLen(Tail(bytes))

(* chunk.decode('utf-8') of the bytes lo to hi - 1 of the file, whose first
   run starts at the byte at: the characters of the chunk, or
   UnicodeDecodeError when the chunk starts or ends inside a character *)
RECURSIVE Decode(_, _, _, _)
Decode(bytes, at, lo, hi) ==
  IF bytes = << >> THEN [raised |-> FALSE, text |-> << >>]
  ELSE LET w == Width(bytes[1].ch)
           end == at + w * bytes[1].n
           from == IF lo > at THEN lo ELSE at
           to == IF hi < end THEN hi ELSE end
           rest == Decode(Tail(bytes), end, lo, hi)
       IN IF to <= from THEN rest
          ELSE IF (from - at) % w # 0 \/ (to - at) % w # 0
            THEN [raised |-> TRUE, text |-> << >>]
          ELSE IF rest.raised THEN rest
          ELSE [raised |-> FALSE,
                text |-> Join(<< Run(bytes[1].ch, (to - from) \div w) >>, rest.text)]

(* str.strip() of a text made of runs *)
StripRuns(text) ==
  LET first == IF text # << >> /\ text[1].ch \in Whitespace THEN 2 ELSE 1
      last == IF text # << >> /\ text[Len(text)].ch \in Whitespace
              THEN Len(text) - 1 ELSE Len(text)
  IN SubSeq(text, first, last)

(* _extract_from_txt, lines 118-149, chunk by chunk: 0.2 and seek(0); then
   every chunk of chunk_size bytes is read, decoded on its own and added to
   text_content, with its progress value; an empty read ends the loop, 0.9
   follows and text_content.strip() is returned; a chunk that does not
   decode ends in the except clause, which returns "" *)
ExtractFromTxtChunk(i) ==
  LET total_size == files[i].size
      chunk == Len(emitted) - 1
      lo == (chunk - 1) * chunk_size
      hi == IF chunk * chunk_size < total_size THEN chunk * chunk_size ELSE total_size
      decoded == Decode(files[i].bytes, 0, lo, hi)
  IN /\ pc[i] = "reading"
     /\ FileExtension(files[i].name) = << "txt" >>
     /\ IF Len(emitted) = 1
        THEN Emit(Frac(2, 10)) /\ ReaderGoesOn
        ELSE IF lo < total_size
        THEN IF decoded.raised
             THEN /\ UNCHANGED emitted
                  /\ pc' = [pc EXCEPT ![i] = "extracted"]
                  /\ text_content' = [text_content EXCEPT ![i] = << >>]
             ELSE /\ Emit(Frac(2 * total_size + 7 * hi, 10 * total_size))
                  /\ text_content' = [text_content EXCEPT ![i] = Join(@, decoded.text)]
                  /\ UNCHANGED pc
        ELSE /\ Emit(Frac(9, 10))
             /\ pc' = [pc EXCEPT ![i] = "extracted"]
             /\ text_content' = [text_content EXCEPT ![i] = StripRuns(@)]
     /\ UNCHANGED << storeVars, managerVars, editVars, reportVars, display, appVars,
                     config, files, protocol, language, responses, mainPc, prompt,
                     calls, outcome, result, progress_tracker, results >>

(* the text uploads: blanks, letters up to the end of a chunk or close to
   it, characters of two to four bytes, a letter and blanks *)
RECURSIVE JoinAll(_)
JoinAll(runs) ==
  IF runs = << >> THEN << >>
  ELSE Join(IF runs[1].n = 0 THEN << >> ELSE << runs[1] >>, JoinAll(Tail(runs)))

TxtTexts ==
  {JoinAll(<< Run(" ", lead), Run("a", k * chunk_size - short), Run(wide, m),
              Run("a", more), Run(" ", trail) >>) :
     lead \in 0..1, k \in 1..(MaxUnits - 1), short \in 0..3,
     wide \in {"U+00E9", "U+20AC", "U+1F600"}, m \in 0..2, more \in 0..1, trail \in 0..1}
    \cup {<< >>, << Run(" ", 2) >>, << Run("U+00E9", 1) >>}

TxtUploads ==
  {[name |-> << "c", ".", "txt" >>, bytes |-> text, size |-> ByteLen(text)] :
     text \in TxtTexts}

(* the files of an extraction: every reader, an unsupported extension, every
   size up to MaxUnits pages, paragraphs or chunks (a last chunk that is
   half full and a full one), readable or raising at any point *)
ExtractNames ==
  {<< "a", ".", "pdf" >>, << "b", ".", "docx" >>, << "c", ".", "TXT" >>,
   << "d", ".", "xyz" >>}

ExtractSizes(name) ==
  IF FileExtension(name) = << "txt" >>
  THEN {0} \cup {(k - 1) * chunk_size + r :
                   k \in 1..MaxUnits, r \in {chunk_size \div 2, chunk_size}}
  ELSE 0..MaxUnits

UnitsOf(name, size) ==
  IF FileExtension(name) = << "txt" >> THEN Chunks(size) ELSE size

ExtractContent(size) == IF size = 0 THEN << >> ELSE << " ", "a" >>

ExtractFiles ==
  UNION {UNION {
    {[name |-> name, readable |-> TRUE, content |-> ExtractContent(size),
      size |-> size, raises_at |-> 0]}
    \cup {[name |-> name, readable |-> FALSE, content |-> ExtractContent(size),
           size |-> size, raises_at |-> j] : j \in 0..UnitsOf(name, size)}
    : size \in ExtractSizes(name)} : name \in ExtractNames}

-----------------------------------------------------------------------------
(* The reports: report_generator.py and display_report of app.py.  A report
   is the sequence of the blocks added to the document (python-docx), to the
   story (reportlab) or to the page (Streamlit); the text of a block is the
   sequence of its parts.  The bullet of a list item is written "*", the
   greater-or-equal sign ">=", and the pictographs of the page are left
   out. *)

Lit(s) == [t |-> "lit", v |-> s]
Num(n) == [t |-> "int", v |-> n]
Name(filename) == [t |-> "name", v |-> filename]
Block(kind, text) == [kind |-> kind, text |-> text]

(* n / d rounded to the nearest integer, a tie to the even one *)
RoundHalfEven(n, d) ==
  LET q == n \div d
      r == n % d
  IN IF 2 * r < d THEN q
     ELSE IF 2 * r > d THEN q + 1
     ELSE IF q % 2 = 0 THEN q ELSE q + 1

(* f"{score:.1f}": the score in tenths, rounded *)
Format1f(score) == [t |-> "1f", v |-> RoundHalfEven(score.num * 10, score.den)]

(* s >= n and s < n for a score s and an integer n *)
ScoreAtLeast(s, n) == s.num >= n * s.den
ScoreBelow(s, n) == s.num < n * s.den

(* sum(r['overall_score'] for r in report_data['results']) *)
RECURSIVE SumOverall(_)
SumOverall(rs) ==
  IF rs = << >> THEN Zero
  ELSE LET head == rs[1].overall_score
           rest == SumOverall(Tail(rs))
       IN [num |-> head.num * rest.den + rest.num * head.den,
           den |-> head.den * rest.den]

(* a variant of CountCompliant that counts the scores above 80 *)
CountAbove80(rs) ==
  Cardinality({i \in DOMAIN rs : ~ScoreBelow(rs[i].overall_score, 80)
                                 /\ rs[i].overall_score.num # 80 * rs[i].overall_score.den})

(* len([s for s in scores if s >= 80]) *)
CountCompliant(rs) ==
  Cardinality({i \in DOMAIN rs : ScoreAtLeast(rs[i].overall_score, 80)})

(* len([s for s in scores if 60 <= s < 80]) *)
CountNeedsImprovement(rs) ==
  Cardinality({i \in DOMAIN rs : /\ ScoreAtLeast(rs[i].overall_score, 60)
                                 /\ ScoreBelow(rs[i].overall_score, 80)})

(* len([s for s in scores if s < 60]) *)
CountNonCompliant(rs) ==
  Cardinality({i \in DOMAIN rs : ScoreBelow(rs[i].overall_score, 60)})

(* the summary statistics of a non-empty list of results *)
SummaryStatistics(rs) ==
  [total_files |-> Len(rs),
   avg_score |-> [num |-> SumOverall(rs).num, den |-> SumOverall(rs).den * Len(rs)],
   compliant |-> CountCompliant(rs),
   needs_improvement |-> CountNeedsImprovement(rs),
   non_compliant |-> CountNonCompliant(rs)]

(* what the two document formats add for a title, a heading, a paragraph, a
   list item and a gap *)
Title(format, text) ==
  Block(IF format = "word" THEN "Title" ELSE "CustomTitle", text)
Heading(format, level, text) == Block(<< "Heading", level >>, text)
Paragraph(format, text) == Block("Normal", text)
Bullet(format, text) ==
  Block(IF format = "word" THEN "List Bullet" ELSE "Normal", text)
Gap(format, height) ==
  IF format = "word" THEN Block("Normal", << >>) ELSE Block("Spacer", << Num(height) >>)

(* the title and the date *)
TitleBlocks(format, now) ==
  << Title(format, << Lit("DSGVO Compliance Report") >>),
     Paragraph(format, << Lit("Generated on: "), Lit(now) >>),
     Gap(format, 20) >>

(* the executive summary *)
SummaryBlocks(format, options, rs) ==
  IF ~options.include_summary THEN << >>
  ELSE LET stats == SummaryStatistics(rs)
       IN << Heading(format, 1, << Lit("Executive Summary") >>),
             Paragraph(format, << Lit("Total Documents Analyzed: "), Num(stats.total_files) >>),
             Paragraph(format, << Lit("Average Compliance Score: "),
                                  Format1f(stats.avg_score), Lit("%") >>),
             Paragraph(format, << Lit("Compliant (>=80%): "), Num(stats.compliant) >>),
             Paragraph(format, << Lit("Needs Improvement (60-79%): "),
                                  Num(stats.needs_improvement) >>),
             Paragraph(format, << Lit("Non-Compliant (<60%): "),
                                  Num(stats.non_compliant) >>),
             Gap(format, 20) >>

(* one list item for every element of a list *)
Bullets(format, prefix, items) ==
  [i \in 1..Len(items) |-> Bullet(format, << Lit(prefix), Lit(items[i]) >>)]

(* the references of a section: the criterion, then its passages *)
RECURSIVE ReferenceBlocks(_, _, _)
ReferenceBlocks(format, references, criteria) ==
  IF criteria = << >> THEN << >>
  ELSE << Bullet(format, << Lit("- "), Lit(criteria[1]), Lit(":") >>) >>
         \o Bullets(format, "    * ", references[criteria[1]])
         \o ReferenceBlocks(format, references, Tail(criteria))

(* the blocks of one section of a result *)
SectionBlocks(format, section, section_result) ==
  << Heading(format, 3, << Lit(section) >>),
     Paragraph(format, << Lit("Score: "),
                          Format1f([num |-> section_result.score, den |-> 1]),
                          Lit("%") >>) >>
    \o (IF section_result.issues # << >>
        THEN << Heading(format, 4, << Lit("Issues:") >>) >>
               \o Bullets(format, "* ", section_result.issues)
        ELSE << >>)
    \o (IF section_result.recommendations # << >>
        THEN << Heading(format, 4, << Lit("Recommendations:") >>) >>
               \o Bullets(format, "* ", section_result.recommendations)
        ELSE << >>)
    \o (IF DOMAIN section_result.references # {}
        THEN << Heading(format, 4, << Lit("References (Fundstellen):") >>) >>
               \o ReferenceBlocks(format, section_result.references,
                                  KeysOf(DOMAIN section_result.references))
        ELSE << >>)
    \o << Gap(format, 12) >>

RECURSIVE SectionsBlocks(_, _, _)
SectionsBlocks(format, section_results, sections) ==
  IF sections = << >> THEN << >>
  ELSE SectionBlocks(format, sections[1], section_results[sections[1]])
         \o SectionsBlocks(format, section_results, Tail(sections))

RECURSIVE ResultsBlocks(_, _)
ResultsBlocks(format, rs) ==
  IF rs = << >> THEN << >>
  ELSE << Heading(format, 2, << Name(rs[1].filename), Lit(" - "),
                                Format1f(rs[1].overall_score), Lit("%") >>) >>
         \o SectionsBlocks(format, rs[1].section_results,
                           KeysOf(DOMAIN rs[1].section_results))
         \o ResultsBlocks(format, Tail(rs))

(* the detailed findings *)
DetailBlocks(format, options, rs) ==
  IF ~options.include_details THEN << >>
  ELSE << Heading(format, 1, << Lit("Detailed Findings") >>) >>
         \o ResultsBlocks(format, rs)

(* set(all_recommendations): the recommendations of every section of every
   result *)
AllRecommendations(rs) ==
  UNION {UNION {Range(rs[i].section_results[section].recommendations) :
                  section \in DOMAIN rs[i].section_results} : i \in DOMAIN rs}

(* a variant of Orderings that lists one element twice, as a list made
   without set() does *)
OrderingsWithRepeats(S) ==
  {seq \in [1..Cardinality(S) + 1 -> S] : Range(seq) = S}

(* list(set(...)): the elements of the set in some order *)
Orderings(S) == {seq \in [1..Cardinality(S) -> S] : Range(seq) = S}

(* a variant of RecommendationBlocks that does not look at
   include_recommendations *)
RecommendationBlocksAlways(format, options, unique_recommendations) ==
  << Heading(format, 1, << Lit("Overall Recommendations") >>) >>
    \o Bullets(format, "* ", unique_recommendations)

(* the overall recommendations *)
RecommendationBlocks(format, options, unique_recommendations) ==
  IF ~options.include_recommendations THEN << >>
  ELSE << Heading(format, 1, << Lit("Overall Recommendations") >>) >>
         \o Bullets(format, "* ", unique_recommendations)

(* the call divides by len(results): it raises on an empty list when the
   summary is asked for *)
ReportRaises(options, rs) ==
  IF options.include_summary /\ rs = << >> THEN "ZeroDivisionError" ELSE "none"

Generated(format, options, now, unique_recommendations) ==
  [format |-> format, options |-> options, now |-> now,
   raised |-> ReportRaises(options, results),
   stats |-> IF options.include_summary /\ results # << >>
             THEN << SummaryStatistics(results) >> ELSE << >>,
   blocks |-> IF ReportRaises(options, results) # "none" THEN << >>
              ELSE TitleBlocks(format, now)
                     \o SummaryBlocks(format, options, results)
                     \o DetailBlocks(format, options, results)
                     \o RecommendationBlocks(format, options, unique_recommendations)]

ReportOptions ==
  [include_summary : BOOLEAN, include_details : BOOLEAN,
   include_recommendations : BOOLEAN]

(* the order list(set(...)) gives, when the list is built at all *)
OrderingsFor(options) ==
  IF options.include_recommendations /\ ReportRaises(options, results) = "none"
  THEN Orderings(AllRecommendations(results)) ELSE {<< >>}

(* generate_word_report, lines 35-145 *)
generate_word_report(options, now, unique_recommendations) ==
  /\ report = NoReport
  /\ unique_recommendations \in OrderingsFor(options)
  /\ report' = Generated("word", options, now, unique_recommendations)
  /\ UNCHANGED << storeVars, managerVars, editVars, extractVars, scoreVars, appVars >>

(* generate_pdf_report, lines 158-273 *)
generate_pdf_report(options, now, unique_recommendations) ==
  /\ report = NoReport
  /\ unique_recommendations \in OrderingsFor(options)
  /\ report' = Generated("pdf", options, now, unique_recommendations)
  /\ UNCHANGED << storeVars, managerVars, editVars, extractVars, scoreVars, appVars >>

(* what display_report puts on the page for a st.markdown, a st.metric and a
   st.write *)
Markdown(text) == Block("markdown", text)
Metric(label, value) == Block("metric", << Lit(label), value >>)
Write(text) == Block("write", text)

Writes(prefix, items) ==
  [i \in 1..Len(items) |-> Write(<< Lit(prefix), Lit(items[i]) >>)]

RECURSIVE DisplayReferences(_, _)
DisplayReferences(references, criteria) ==
  IF criteria = << >> THEN << >>
  ELSE << Write(<< Lit("- "), Lit(criteria[1]), Lit(":") >>) >>
         \o Writes("    * ", references[criteria[1]])
         \o DisplayReferences(references, Tail(criteria))

DisplaySection(section, section_result) ==
  << Markdown(<< Lit("**"), Lit(section), Lit(":** "),
                 Format1f([num |-> section_result.score, den |-> 1]), Lit("%") >>) >>
    \o (IF section_result.issues # << >>
        THEN << Write(<< Lit("**Issues:**") >>) >> \o Writes("* ", section_result.issues)
        ELSE << >>)
    \o (IF section_result.recommendations # << >>
        THEN << Write(<< Lit("**Recommendations:**") >>) >>
               \o Writes("* ", section_result.recommendations)
        ELSE << >>)
    \o (IF DOMAIN section_result.references # {}
        THEN << Write(<< Lit("**References (Fundstellen):**") >>) >>
               \o DisplayReferences(section_result.references,
                                    KeysOf(DOMAIN section_result.references))
        ELSE << >>)

RECURSIVE DisplaySections(_, _)
DisplaySections(section_results, sections) ==
  IF sections = << >> THEN << >>
  ELSE DisplaySection(sections[1], section_results[sections[1]])
         \o DisplaySections(section_results, Tail(sections))

RECURSIVE DisplayResults(_)
DisplayResults(rs) ==
  IF rs = << >> THEN << >>
  ELSE << Block("expander", << Name(rs[1].filename), Lit(" - "),
                               Format1f(rs[1].overall_score), Lit("%") >>) >>
         \o DisplaySections(rs[1].section_results, KeysOf(DOMAIN rs[1].section_results))
         \o DisplayResults(Tail(rs))

Displayed(options, unique_recommendations) ==
  [format |-> "display", options |-> options, now |-> "",
   raised |-> ReportRaises(options, results),
   stats |-> IF options.include_summary /\ results # << >>
             THEN << SummaryStatistics(results) >> ELSE << >>,
   blocks |->
     IF ReportRaises(options, results) # "none" THEN << >>
     ELSE << Block("subheader", << Lit("Compliance Report") >>) >>
       \o (IF options.include_summary
           THEN LET stats == SummaryStatistics(results)
                IN << Markdown(<< Lit("## Executive Summary") >>),
                      Metric("Total Documents Analyzed", Num(stats.total_files)),
                      Metric("Average Compliance Score", Format1f(stats.avg_score)),
                      Metric("Compliant (>=80%)", Num(stats.compliant)),
                      Metric("Needs Improvement (60-79%)", Num(stats.needs_improvement)),
                      Metric("Non-Compliant (<60%)", Num(stats.non_compliant)) >>
           ELSE << >>)
       \o (IF options.include_details
           THEN << Markdown(<< Lit("## Detailed Findings") >>) >> \o DisplayResults(results)
           ELSE << >>)
       \o (IF options.include_recommendations
           THEN << Markdown(<< Lit("## Overall Recommendations") >>) >>
                  \o Writes("* ", unique_recommendations)
           ELSE << >>)]

(* display_report, lines 565-627 *)
display_report(options, unique_recommendations) ==
  /\ report = NoReport
  /\ unique_recommendations \in OrderingsFor(options)
  /\ report' = Displayed(options, unique_recommendations)
  /\ UNCHANGED << storeVars, managerVars, editVars, extractVars, scoreVars, appVars >>

(* the results a report is made of: scored documents whose overall scores
   are 59.5, 60, 79.5, 80 and 100, and an empty document (0) *)
ReportSection(score, issues, recommendations, references) ==
  [score |-> score, issues |-> issues, recommendations |-> recommendations,
   references |-> references]

ReportOutputs ==
  { [summary |-> "assessment", section_results |->
       ("s1" :> ReportSection(59, << "i1" >>, << "r3" >>, << >>)
        @@ "s2" :> ReportSection(60, << "i2" >>, << "r1" >>, << >>))],
    [summary |-> "assessment", section_results |->
       ("s1" :> ReportSection(60, << "i1" >>, << "r1", "r2" >>, << >>))],
    [summary |-> "assessment", section_results |->
       ("s1" :> ReportSection(79, << >>, << "r2" >>, ("c1" :> << "p. 1" >>))
        @@ "s2" :> ReportSection(80, << >>, << >>, << >>))],
    [summary |-> "assessment", section_results |->
       ("s1" :> ReportSection(80, << "i1" >>, << "r1" >>, << >>))],
    [summary |-> "assessment", section_results |->
       ("s1" :> ReportSection(100, << >>, << >>, << >>))] }

ReportResults ==
  {SuccessResult(<< "a", ".", "pdf" >>, output) : output \in ReportOutputs}
    \cup {_create_empty_result(<< "b", ".", "TXT" >>, "English")}

Timestamps == {"2024-01-01 10:00:00", "2024-01-02 11:30:00"}

-----------------------------------------------------------------------------
(* Specifications *)

(* the protocol store over a file in any state *)
InitStore ==
  /\ disk \in FileStates
  /\ store = IdleStore
  /\ config = [max_content_length |-> 1]
  /\ files = << >>
  /\ protocol = << >>
  /\ language = "Deutsch"
  /\ responses = "batch"
  /\ mainPc = "idle"
  /\ pc = << >>
  /\ text_content = << >>
  /\ prompt = << >>
  /\ calls = << >>
  /\ outcome = << >>
  /\ result = << >>
  /\ progress_tracker = NoTracker
  /\ display = NoDisplay
  /\ app = AppShowing("Protocol Management")
  /\ results = << >>
  /\ protocol_file = "configured"
  /\ cwd_disk = NoFile
  /\ callers = IdleCallers
  /\ emitted = << >>
  /\ report = NoReport

NextStore ==
  \/ load_protocol
  \/ \E p \in StoreProtocols : save_protocol(p)
  \/ \E p \in StoreProtocols : SaveProtocolOpenFails(p)
  \/ \E p \in StoreProtocols : SaveProtocolWriteFails(p)
  \/ \E section \in QueriedSections : get_criteria(section)
  \/ \E blanked \in BOOLEAN, new_criterion \in Criteria \cup {""}, how \in SaveOutcomes :
       SaveProtocolPage(blanked, new_criterion, how)

SpecStore == InitStore /\ [][NextStore]_vars

(* the construction of a ProtocolManager over the two files in any state,
   and the first load_protocol of the application *)
InitConstruct ==
  /\ disk \in FileStates
  /\ cwd_disk \in FileStates
  /\ protocol_file = "unset"
  /\ store = IdleStore
  /\ config = [max_content_length |-> 1]
  /\ files = << >>
  /\ protocol = << >>
  /\ language = "Deutsch"
  /\ responses = "batch"
  /\ mainPc = "idle"
  /\ pc = << >>
  /\ text_content = << >>
  /\ prompt = << >>
  /\ calls = << >>
  /\ outcome = << >>
  /\ result = << >>
  /\ progress_tracker = NoTracker
  /\ display = NoDisplay
  /\ app = AppShowing("Protocol Management")
  /\ results = << >>
  /\ callers = IdleCallers
  /\ emitted = << >>
  /\ report = NoReport

NextConstruct ==
  \/ EnsureFileExists
  \/ \E how \in SaveOutcomes : EnsureFileMissing(how)
  \/ \E how \in SaveOutcomes : EnsureFallsBack(how)
  \/ load_protocol

SpecConstruct == InitConstruct /\ [][NextConstruct]_vars

(* two callers of add_criterion and remove_criterion, one call each, over
   one protocol file in any state *)
EditFiles ==
  {NoFile, BytesFile, ListFile} \cup {JsonFile(json_dump(p)) : p \in StoreProtocols}

InitEdit ==
  /\ disk \in EditFiles
  /\ cwd_disk = NoFile
  /\ protocol_file = "configured"
  /\ store = IdleStore
  /\ config = [max_content_length |-> 1]
  /\ files = << >>
  /\ protocol = << >>
  /\ language = "Deutsch"
  /\ responses = "batch"
  /\ mainPc = "idle"
  /\ pc = << >>
  /\ text_content = << >>
  /\ prompt = << >>
  /\ calls = << >>
  /\ outcome = << >>
  /\ result = << >>
  /\ progress_tracker = NoTracker
  /\ display = NoDisplay
  /\ app = AppShowing("Protocol Management")
  /\ results = << >>
  /\ callers = IdleCallers
  /\ emitted = << >>
  /\ report = NoReport

NextEdit ==
  \/ \E k \in CallerIds, section \in StoreSections, criterion \in Criteria :
       add_criterion(k, section, criterion)
  \/ \E k \in CallerIds, how \in SaveOutcomes : AddCriterionSave(k, how)
  \/ \E k \in CallerIds, section \in StoreSections, criterion \in Criteria :
       remove_criterion(k, section, criterion)
  \/ \E k \in CallerIds, how \in SaveOutcomes : RemoveCriterionSave(k, how)

SpecEdit == InitEdit /\ [][NextEdit]_vars

(* one call of extract_text(uploaded_file, progress_callback) *)
InitExtract ==
  /\ files \in {<< file >> : file \in ExtractFiles}
  /\ pc = << "extract" >>
  /\ text_content = << << >> >>
  /\ emitted = << >>
  /\ config = [max_content_length |-> 1]
  /\ protocol = << >>
  /\ language = "Deutsch"
  /\ responses = "batch"
  /\ mainPc = "direct"
  /\ prompt = << NoPrompt >>
  /\ calls = << 0 >>
  /\ outcome = << NoOutcome >>
  /\ result = << NoResult >>
  /\ progress_tracker = NoTracker
  /\ display = NoDisplay
  /\ app = AppShowing("Compliance Check")
  /\ results = << >>
  /\ disk = NoFile
  /\ store = IdleStore
  /\ protocol_file = "configured"
  /\ cwd_disk = NoFile
  /\ callers = IdleCallers
  /\ report = NoReport

NextExtract ==
  \/ \E i \in Indices : ExtractTextBegin(i)
  \/ \E i \in Indices : ExtractFromPdfStep(i)
  \/ \E i \in Indices : ExtractFromDocxStep(i)
  \/ \E i \in Indices : ExtractFromTxtStep(i)

SpecExtract == InitExtract /\ [][NextExtract]_vars

(* one extract_text call on a text upload *)
InitDecode ==
  /\ files \in {<< file >> : file \in TxtUploads}
  /\ pc = << "extract" >>
  /\ text_content = << << >> >>
  /\ emitted = << >>
  /\ config = [max_content_length |-> 1]
  /\ protocol = << >>
  /\ language = "Deutsch"
  /\ responses = "batch"
  /\ mainPc = "direct"
  /\ prompt = << NoPrompt >>
  /\ calls = << 0 >>
  /\ outcome = << NoOutcome >>
  /\ result = << NoResult >>
  /\ progress_tracker = NoTracker
  /\ display = NoDisplay
  /\ app = AppShowing("Compliance Check")
  /\ results = << >>
  /\ disk = NoFile
  /\ store = IdleStore
  /\ protocol_file = "configured"
  /\ cwd_disk = NoFile
  /\ callers = IdleCallers
  /\ report = NoReport

NextDecode ==
  \/ \E i \in Indices : ExtractTextBegin(i)
  \/ \E i \in Indices : ExtractFromTxtChunk(i)

SpecDecode == InitDecode /\ [][NextDecode]_vars

(* the report page: one of the three reports of a list of results *)
InitReport ==
  /\ \E n \in 0..MaxResults : results \in SeqsOfLen(ReportResults, n)
  /\ report = NoReport
  /\ config = [max_content_length |-> 1]
  /\ files = << >>
  /\ protocol = << >>
  /\ language = "Deutsch"
  /\ responses = "batch"
  /\ mainPc = "returned"
  /\ pc = << >>
  /\ text_content = << >>
  /\ prompt = << >>
  /\ calls = << >>
  /\ outcome = << >>
  /\ result = << >>
  /\ progress_tracker = NoTracker
  /\ display = NoDisplay
  /\ app = AppShowing("Report Generation")
  /\ disk = NoFile
  /\ store = IdleStore
  /\ protocol_file = "configured"
  /\ cwd_disk = NoFile
  /\ callers = IdleCallers
  /\ emitted = << >>

NextReport ==
  \/ \E options \in ReportOptions, now \in Timestamps :
       \E unique_recommendations \in OrderingsFor(options) :
         generate_word_report(options, now, unique_recommendations)
  \/ \E options \in ReportOptions, now \in Timestamps :
       \E unique_recommendations \in OrderingsFor(options) :
         generate_pdf_report(options, now, unique_recommendations)
  \/ \E options \in ReportOptions :
       \E unique_recommendations \in OrderingsFor(options) :
         display_report(options, unique_recommendations)

SpecReport == InitReport /\ [][NextReport]_vars

(* a batch: run_async_compliance_check(files, protocol, language) *)
InitBatch ==
  /\ config = [max_content_length |-> 1]
  /\ \E n \in 1..MaxFiles : files \in SeqsOfLen(BatchFiles, n)
  /\ protocol = ("s1" :> << "c1" >>)
  /\ language \in Languages
  /\ responses = "batch"
  /\ mainPc = "start"
  /\ pc = [i \in Indices |-> "idle"]
  /\ text_content = [i \in Indices |-> << >>]
  /\ prompt = [i \in Indices |-> NoPrompt]
  /\ calls = [i \in Indices |-> 0]
  /\ outcome = [i \in Indices |-> NoOutcome]
  /\ result = [i \in Indices |-> NoResult]
  /\ progress_tracker = NoTracker
  /\ display = NoDisplay
  /\ app = AppShowing("Compliance Check")
  /\ results = << >>
  /\ disk = NoFile
  /\ store = IdleStore
  /\ protocol_file = "configured"
  /\ cwd_disk = NoFile
  /\ callers = IdleCallers
  /\ emitted = << >>
  /\ report = NoReport

NextBatch ==
  \/ Submit
  \/ \E i \in Indices : WorkerStart(i)
  \/ \E i \in Indices : DoExtractText(i)
  \/ \E i \in Indices : ConstructChecker(i)
  \/ \E i \in Indices : ConstructCheckerFails(i)
  \/ \E i \in Indices : CheckComplianceBegin(i)
  \/ \E i \in Indices : InvokeModel(i)
  \/ \E i \in Indices : Completed(i)
  \/ Collect
  \/ Return

SpecBatch == InitBatch /\ [][NextBatch]_vars

(* the start of the script with every kind of setting, right and wrong; an
   empty ALLOWED_FILE_TYPES setting gives the list [''] (''.split(',')), the
   empty list is what a configuration built without the environment holds *)
StartupConfigs ==
  [openai_api_key : {<< >>, << "sk-", "key" >>, << "pk-", "key" >>},
   openai_base_url : {<< >>, << "https://", "proxy" >>, << "ftp://", "proxy" >>,
                      << "proxy" >>},
   max_file_size : {-1, 0, 10485760},
   allowed_file_types : {<< >>, << "" >>, << "pdf", "txt" >>},
   max_tokens : {0, 2000},
   temperature : {-1, 0, 20, 21},
   max_content_length : {1}]

InitStartup ==
  /\ config \in StartupConfigs
  /\ app = Booting
  /\ files = << >>
  /\ protocol = ("s1" :> << "c1" >>)
  /\ language = "Deutsch"
  /\ responses = "batch"
  /\ mainPc = "start"
  /\ pc = << >>
  /\ text_content = << >>
  /\ prompt = << >>
  /\ calls = << >>
  /\ outcome = << >>
  /\ result = << >>
  /\ progress_tracker = NoTracker
  /\ display = NoDisplay
  /\ results = << >>
  /\ disk = NoFile
  /\ store = IdleStore
  /\ protocol_file = "configured"
  /\ cwd_disk = NoFile
  /\ callers = IdleCallers
  /\ emitted = << >>
  /\ report = NoReport

NextStartup ==
  \/ StartupConfigError
  \/ \E connects \in BOOLEAN : StartupProxyError(connects)
  \/ \E connects \in BOOLEAN : StartupMain(connects)
  \/ \E page \in Pages : SelectPage(page)
  \/ \E file \in BatchFiles : AcceptUpload(<< file >>)
  \/ StartComplianceCheck

SpecStartup == InitStartup /\ [][NextStartup]_vars

(* a batch of up to MaxBatch files, more than the pool has workers, with
   the display thread *)
InitPool ==
  /\ config = [max_content_length |-> 1]
  /\ \E n \in 1..MaxBatch : files = PoolFiles(n)
  /\ protocol = ("s1" :> << "c1" >>)
  /\ language = "Deutsch"
  /\ responses = "pool"
  /\ mainPc = "start"
  /\ pc = [i \in Indices |-> "idle"]
  /\ text_content = [i \in Indices |-> << >>]
  /\ prompt = [i \in Indices |-> NoPrompt]
  /\ calls = [i \in Indices |-> 0]
  /\ outcome = [i \in Indices |-> NoOutcome]
  /\ result = [i \in Indices |-> NoResult]
  /\ progress_tracker = NoTracker
  /\ display = NoDisplay
  /\ app = AppShowing("Compliance Check")
  /\ results = << >>
  /\ disk = JsonFile(json_dump("s1" :> << "c1" >>))
  /\ store = IdleStore
  /\ protocol_file = "configured"
  /\ cwd_disk = NoFile
  /\ callers = IdleCallers
  /\ emitted = << >>
  /\ report = NoReport

NextPool ==
  \/ Submit
  \/ \E i \in Indices : WorkerStart(i)
  \/ \E i \in Indices : DoExtractText(i)
  \/ \E i \in Indices : ConstructChecker(i)
  \/ \E i \in Indices : ConstructCheckerFails(i)
  \/ \E i \in Indices : CheckComplianceBegin(i)
  \/ \E i \in Indices : InvokeModel(i)
  \/ \E i \in Indices : Completed(i)
  \/ Collect
  \/ Return
  \/ update_progress_display

SpecPool == InitPool /\ [][NextPool]_vars

(* a batch of up to MaxPolled files in which every thread that can run does
   run in the end: the pool threads and the caller, and the display thread,
   which the interpreter schedules like any other *)
InitDisplay ==
  /\ InitPool
  /\ Len(files) <= MaxPolled

SpecDisplay ==
  /\ InitDisplay
  /\ [][NextPool]_vars
  /\ WF_vars(NextBatch)
  /\ WF_vars(update_progress_display)

(* one direct call: check_compliance(text_content, protocol, filename, language) *)
InitCheck ==
  /\ config \in [max_content_length : 0..MaxTextLen]
  /\ \E name \in {<< "a", ".", "pdf" >>, << "b", ".", "TXT" >>} :
       files = << [name |-> name, readable |-> TRUE, content |-> << >>] >>
  /\ protocol \in CheckProtocols
  /\ language \in Languages
  /\ responses = "all"
  /\ mainPc = "direct"
  /\ pc = << "check" >>
  /\ text_content \in {<< t >> : t \in Texts}
  /\ prompt = << NoPrompt >>
  /\ calls = << 0 >>
  /\ outcome = << NoOutcome >>
  /\ result = << NoResult >>
  /\ progress_tracker = NoTracker
  /\ display = NoDisplay
  /\ app = AppShowing("Compliance Check")
  /\ results = << >>
  /\ disk = NoFile
  /\ store = IdleStore
  /\ protocol_file = "configured"
  /\ cwd_disk = NoFile
  /\ callers = IdleCallers
  /\ emitted = << >>
  /\ report = NoReport

NextCheck ==
  \/ \E i \in Indices : CheckComplianceBegin(i)
  \/ \E i \in Indices : InvokeModel(i)

SpecCheck == InitCheck /\ [][NextCheck]_vars

-----------------------------------------------------------------------------
(* Properties *)

(* a text that is empty or made of whitespace only *)
IsBlank(t) == \A k \in 1..Len(t) : t[k] \in Whitespace

(* a fraction within [0,100] *)
InScoreRange(q) == q.den > 0 /\ 0 <= q.num /\ q.num <= 100 * q.den

ScoreOf(section_results, section) ==
  IF section \in DOMAIN section_results THEN section_results[section].score ELSE 0

(* the sum of the section scores, section by section *)
TotalOf(section_results) ==
  ScoreOf(section_results, "s1") + ScoreOf(section_results, "s2")
    + ScoreOf(section_results, "s3")

EmptySummary ==
  IF language = "Deutsch"
    THEN << "Dokument ist leer oder konnte nicht verarbeitet werden" >>
    ELSE << "Document is empty or could not be processed" >>

ErrorPrefix ==
  IF language = "Deutsch" THEN "Fehler bei der Verarbeitung: "
  ELSE "Error during processing: "

(* agent.run_sync ended in a failure: it raised, or its output has a section
   score that SectionResult rejects *)
Failed(r) ==
  \/ r.kind = "raise"
  \/ /\ r.kind = "output"
     /\ \E section \in DOMAIN r.output.section_results :
          r.output.section_results[section].score \notin 0..100

Returned(i) == pc[i] \in {"checked", "done"}

(* C1: check_compliance on an empty or whitespace-only text returns
   overall_score 0.0, no section results and the 'document empty' summary of
   the selected language, for every protocol and filename. *)
C1_EmptyTextZeroResult ==
  \A i \in Indices :
    (Returned(i) /\ IsBlank(text_content[i])) =>
      /\ result[i].overall_score.num = 0
      /\ DOMAIN result[i].section_results = {}
      /\ result[i].summary = EmptySummary
      /\ result[i].filename = files[i].name

C1_Witness ==
  /\ Len(files) = 1 /\ pc[1] = "checked"
  /\ text_content[1] = << " ", "\n" >>
  /\ language = "English"
  /\ DOMAIN protocol = {"s1", "s2"}
  /\ result[1].summary = << "Document is empty or could not be processed" >>

(* C2: for a non-empty text, when the model invocation raises or its output
   fails validation, check_compliance still returns: a result with
   overall_score 0.0, no section results, the input filename and a summary
   that carries the error message. *)
C2_FailureGivesErrorResult ==
  \A i \in Indices :
    /\ outcome[i] # NoOutcome => (Returned(i) /\ result[i] # NoResult)
    /\ (outcome[i] # NoOutcome /\ Failed(outcome[i])) =>
         /\ ~IsBlank(text_content[i])
         /\ result[i].filename = files[i].name
         /\ result[i].overall_score.num = 0
         /\ DOMAIN result[i].section_results = {}
         /\ Len(result[i].summary) = 2
         /\ result[i].summary[1] = ErrorPrefix
         /\ result[i].summary[2] =
              (IF outcome[i].kind = "raise" THEN outcome[i].error
               ELSE "validation error")

C2_Witness ==
  /\ Len(files) = 1 /\ pc[1] = "checked"
  /\ outcome[1] = [kind |-> "raise", error |-> "connection error"]
  /\ result[1].summary = << "Fehler bei der Verarbeitung: ", "connection error" >>

(* C4: the overall_score of a result is the arithmetic mean of its section
   scores, is 0.0 when there are no sections, and lies in [0,100] when every
   section score does. *)
C4_OverallScoreIsMean ==
  \A i \in Indices :
    (Returned(i) /\ outcome[i] # NoOutcome /\ ~Failed(outcome[i])) =>
      LET section_results == outcome[i].output.section_results
          n == Cardinality(DOMAIN section_results)
          q == result[i].overall_score
      IN /\ result[i].section_results = section_results
         /\ q.den > 0
         /\ n = 0 => q.num = 0
         /\ n > 0 => q.num * n = TotalOf(section_results) * q.den
         /\ (\A s \in DOMAIN section_results : section_results[s].score \in 0..100)
              => InScoreRange(q)

C4_Witness ==
  /\ Len(files) = 1 /\ pc[1] = "checked"
  /\ DOMAIN result[1].section_results = {"s1", "s2", "s3"}
  /\ result[1].section_results["s1"].score = 55
  /\ result[1].section_results["s2"].score = 100
  /\ result[1].section_results["s3"].score = 100
  /\ result[1].overall_score = [num |-> 255, den |-> 3]

(* C6: a text longer than max_content_length is embedded in the prompt as
   its first max_content_length characters followed by the truncation
   marker; a text at or under the budget is embedded unchanged, without the
   marker. *)
C6_TruncationToBudget ==
  \A i \in Indices :
    prompt[i] # NoPrompt =>
      LET budget == config.max_content_length
          content == prompt[i].content
      IN IF Len(text_content[i]) > budget
           THEN /\ Len(content) = budget + 1
                /\ \A k \in 1..budget : content[k] = text_content[i][k]
                /\ content[budget + 1] = "\n[Content truncated due to length]"
           ELSE /\ content = text_content[i]
                /\ \A k \in 1..Len(content) :
                     content[k] # "\n[Content truncated due to length]"

C6_Witness ==
  /\ Len(files) = 1 /\ pc[1] = "invoke"
  /\ config.max_content_length = 2
  /\ text_content[1] = << "a", " ", "a" >>
  /\ prompt[1].content = << "a", " ", "\n[Content truncated due to length]" >>

(* C7: one call of check_compliance invokes the model zero times for an
   empty or whitespace-only text and exactly once otherwise; an invocation
   that failed is not repeated. *)
C7_OneInvocation ==
  \A i \in Indices :
    /\ calls[i] <= 1
    /\ IsBlank(text_content[i]) => calls[i] = 0
    /\ (Returned(i) /\ ~IsBlank(text_content[i])) => calls[i] = 1
    /\ (outcome[i] # NoOutcome /\ Failed(outcome[i])) => (calls[i] = 1 /\ Returned(i))

C7_Witness ==
  /\ Len(files) = 1 /\ pc[1] = "checked"
  /\ outcome[1].kind = "raise"
  /\ calls[1] = 1

(* the document's reader raises, or its extension is none of the supported *)
ExtractionFails(file) ==
  \/ ~file.readable
  \/ Lower(file.name[Len(file.name)]) \notin {"pdf", "docx", "doc", "txt"}

(* the model call of file i returned an output that passed validation *)
Succeeded(i) == outcome[i] # NoOutcome /\ ~Failed(outcome[i])

(* the result of a scored file, from its own output alone *)
OwnResult(i) ==
  LET section_results == outcome[i].output.section_results
  IN [filename |-> files[i].name,
      overall_score |->
        IF DOMAIN section_results = {} THEN [num |-> 0, den |-> 1]
        ELSE [num |-> TotalOf(section_results),
              den |-> Cardinality(DOMAIN section_results)],
      section_results |-> section_results,
      summary |-> << outcome[i].output.summary >>]

(* C3: run_async_compliance_check returns exactly one result per submitted
   file, carrying that file's name, whatever fails for which file; the
   result of a file that was scored is the one its own model output gives,
   whatever happened to the other files. *)
C3_OneResultPerFile ==
  /\ Len(results) <= Len(files)
  /\ \A k \in 1..Len(results) : results[k].filename = files[k].name
  /\ mainPc = "returned" =>
       /\ Len(results) = Len(files)
       /\ \A i \in Indices :
            (pc[i] = "done" /\ Succeeded(i)) => results[i] = OwnResult(i)

C3_Witness ==
  /\ mainPc = "returned"
  /\ Len(files) = 3
  /\ ~files[1].readable
  /\ pc[2] = "done" /\ Succeeded(2) /\ results[2].overall_score.num = 55
  /\ outcome[3] # NoOutcome /\ outcome[3].kind = "raise"
  /\ Len(results) = 3

ScoresInRange(r) ==
  /\ InScoreRange(r.overall_score)
  /\ \A section \in DOMAIN r.section_results :
       /\ r.section_results[section].score >= 0
       /\ r.section_results[section].score <= 100

(* C5: every result produced for a document (scored, empty document, error
   result, the fallback of process_single_file and the one of
   run_async_compliance_check) has overall_score and every section score in
   [0,100]; a model output with a section score outside [0,100] ends as the
   zero-score error result. *)
C5_ScoresWithinBounds ==
  /\ \A i \in Indices : result[i] # NoResult => ScoresInRange(result[i])
  /\ \A k \in 1..Len(results) : ScoresInRange(results[k])
  /\ \A i \in Indices :
       (outcome[i] # NoOutcome /\ outcome[i].kind = "output"
          /\ \E section \in DOMAIN outcome[i].output.section_results :
               outcome[i].output.section_results[section].score \notin 0..100)
       => /\ result[i].overall_score.num = 0
          /\ DOMAIN result[i].section_results = {}
          /\ result[i].summary[1] = ErrorPrefix

C5_Witness ==
  /\ mainPc = "returned"
  /\ Len(files) = 3
  /\ pc[1] = "caught"
  /\ outcome[2] # NoOutcome /\ outcome[2].kind = "output"
  /\ outcome[2].output.section_results["s1"].score = 101
  /\ results[2].overall_score.num = 0
  /\ outcome[3] # NoOutcome /\ outcome[3].kind = "output"
  /\ outcome[3].output.section_results["s1"].score = -1

(* C8: a document whose reader raises or whose extension is unsupported
   gets the empty string from extract_text, and process_single_file returns
   for it the empty-document result (overall_score 0.0, no sections)
   without a model call; the other documents of the batch are scored as
   usual. *)
C8_FailedExtractionIsEmptyDocument ==
  \A i \in Indices :
    IF ExtractionFails(files[i])
      THEN /\ text_content[i] = << >>
           /\ calls[i] = 0 /\ outcome[i] = NoOutcome
           /\ pc[i] \notin {"invoke", "raised"}
           /\ pc[i] \in {"checked", "done"} =>
                result[i] = [filename |-> files[i].name,
                             overall_score |-> [num |-> 0, den |-> 1],
                             section_results |-> << >>,
                             summary |-> EmptySummary]
           /\ pc[i] = "caught" =>
                /\ result[i].overall_score.num = 0
                /\ DOMAIN result[i].section_results = {}
      ELSE /\ pc[i] \in {"check", "invoke", "checked", "done", "caught"} =>
                text_content[i] # << >>
           /\ pc[i] = "done" =>
                /\ calls[i] = 1
                /\ Succeeded(i) => result[i] = OwnResult(i)

C8_Witness ==
  /\ mainPc = "returned"
  /\ Len(files) = 3
  /\ ~files[1].readable /\ pc[1] = "done"
  /\ results[1].summary = << "Document is empty or could not be processed" >>
  /\ files[2].name = << "d", ".", "xyz" >> /\ pc[2] = "done"
  /\ results[2].section_results = << >>
  /\ pc[3] = "done" /\ Succeeded(3) /\ results[3].overall_score.num = 55

(* C9: load_protocol on a protocol file that is missing or does not hold
   valid JSON returns the built-in default protocol and does not raise. *)
C9_LoadNeverRaises ==
  (store.op = "load_protocol" /\ disk.kind \in {"missing", "text", "bytes"}) =>
    /\ store.raised = "none"
    /\ store.ret = _get_default_protocol

(* C10 as stated: the default protocol returned when no valid file exists
   has exactly 14 sections. *)
C10_DefaultHas14Sections ==
  (store.op = "load_protocol" /\ disk.kind \in {"missing", "text"}) =>
    Cardinality(DOMAIN store.ret) = 14

(* C10 as amended: the default protocol returned when no valid file exists
   has exactly 16 sections. *)
C10_DefaultHas16Sections ==
  (store.op = "load_protocol" /\ disk.kind \in {"missing", "text"}) =>
    /\ store.raised = "none"
    /\ Cardinality(DOMAIN store.ret) = 16

C10_Witness ==
  /\ store.op = "load_protocol"
  /\ disk.kind = "missing"
  /\ "Big Data und KI" \in DOMAIN store.ret
  /\ Cardinality(DOMAIN store.ret) = 16

(* C11: save_protocol never raises to its caller: it returns True when the
   whole protocol was written, and False on every failure of open or of
   json.dump, the failure being logged. *)
C11_SaveNeverRaises ==
  store.op = "save_protocol" =>
    /\ store.raised = "none"
    /\ store.ret \in BOOLEAN
    /\ store.ret = (store.logged = "none")
    /\ store.ret => disk = JsonFile(json_dump(store.arg))

C11_Witness ==
  /\ store.op = "save_protocol"
  /\ store.ret = FALSE
  /\ store.logged = "write"
  /\ store.arg = ("s1" :> << "c1" >>)

(* C12: a save_protocol that returns False leaves the content of the
   protocol file as it was before the call. *)
C12_FailedSaveLeavesFile ==
  [][(store'.op = "save_protocol" /\ store'.ret = FALSE) => disk' = disk]_vars

(* C13: load_protocol after a successful save_protocol(P) returns a mapping
   equal to P, the order of the criteria of every section kept, and saving
   the loaded value again writes the text the file holds already. *)
C13_SaveLoadRoundTrip ==
  (store.op = "save_protocol" /\ store.ret = TRUE) =>
    /\ LoadRaises(disk) = "none"
    /\ LoadValue(disk) = store.arg
    /\ \A section \in DOMAIN store.arg :
         /\ section \in DOMAIN LoadValue(disk)
         /\ LoadValue(disk)[section] = store.arg[section]
    /\ JsonFile(json_dump(LoadValue(disk))) = disk

C13_Witness ==
  /\ store.op = "save_protocol"
  /\ store.ret = TRUE
  /\ store.arg = ("s1" :> << "c1", " " >> @@ "s2" :> << "c1" >>)
  /\ LoadValue(disk) = store.arg

(* C16: on a protocol file that holds valid JSON, get_criteria returns the
   stored criteria of the section, the empty list when the section is
   absent, and never raises. *)
C16_GetCriteriaOfValidJson ==
  (store.op = "get_criteria" /\ disk.kind = "json") =>
    /\ store.raised = "none"
    /\ store.ret = IF IsDict(disk) /\ store.arg \in DOMAIN LoadValue(disk)
                   THEN LoadValue(disk)[store.arg] ELSE << >>

(* the step is one construction of the ProtocolManager *)
Constructs == protocol_file = "unset" /\ protocol_file' # "unset"

DefaultFile == JsonFile(json_dump(_get_default_protocol))

(* C17 as stated: if no protocol file exists, after construction the file
   exists and holds the built-in default protocol; if a file exists (valid
   or not), construction leaves its content unchanged. *)
C17_SeedsWhenMissing ==
  [][Constructs =>
       IF disk.kind = "missing" THEN disk' = DefaultFile ELSE disk' = disk]_vars

(* C17 as amended: a file that exists at the configured path is left
   unchanged; if none exists the constructor writes the default protocol
   there, and the file holds it when that write succeeded; a failed write
   is logged and leaves the file missing or cut off; when the directory
   cannot be created the store moves to gdpr_protocol.json of the working
   directory, which it seeds the same way only if it does not exist. *)
C17_SeedsWhenMissingAndWritable ==
  [][Constructs =>
       IF disk.kind # "missing"
       THEN disk' = disk /\ cwd_disk' = cwd_disk /\ protocol_file' = "configured"
       ELSE \/ /\ protocol_file' = "configured"
               /\ cwd_disk' = cwd_disk
               /\ store'.logged = "none" => disk' = DefaultFile
               /\ store'.logged = "open" => disk' = disk
               /\ store'.logged = "write" => disk' = TextFile
            \/ /\ protocol_file' = "fallback"
               /\ disk' = disk
               /\ cwd_disk.kind # "missing" => cwd_disk' = cwd_disk
               /\ (cwd_disk.kind = "missing" /\ store'.logged = "none") =>
                    cwd_disk' = DefaultFile]_vars

C17_Witness ==
  /\ store.op = "__init__"
  /\ protocol_file = "configured"
  /\ store.logged = "write"
  /\ disk = TextFile

(* the protocol a file stores: the sections of its JSON object *)
Stored(file) ==
  IF file.kind = "json" /\ IsDict(file) THEN LoadValue(file) ELSE << >>

HasBlankCriterion(p) ==
  \E section \in DOMAIN p : \E i \in DOMAIN p[section] : p[section][i] \in {"", " "}

(* C14: no call of add_criterion or remove_criterion persists an empty or
   whitespace-only criterion: a protocol file that holds none holds none
   after any write. *)
C14_NoBlankCriterionPersisted ==
  [][(~HasBlankCriterion(Stored(disk)) /\ disk' # disk) =>
       ~HasBlankCriterion(Stored(disk'))]_vars

(* caller k ends its call with a successful save_protocol in this step *)
SavesNow(k) ==
  /\ callers[k].pc = "save"
  /\ callers'[k].pc = "idle"
  /\ callers'[k].ret = TRUE

(* C15: add_criterion and remove_criterion are read-modify-write over the
   whole file: a successful call leaves in the file the copy it read
   earlier with its own change, whatever another caller has written since
   (the last write wins). *)
C15_LastWriteWins ==
  [][\A k \in CallerIds :
       SavesNow(k) => disk' = JsonFile(json_dump(callers[k].local))]_vars

(* both calls have returned True and the file holds the update of caller 2
   alone *)
C15_Witness ==
  /\ \A k \in CallerIds :
       /\ callers[k].pc = "idle"
       /\ callers[k].op = "add_criterion"
       /\ callers[k].section = "s1"
       /\ callers[k].raised = "none"
       /\ callers[k].ret = TRUE
  /\ callers[1].criterion = "c1"
  /\ callers[2].criterion = " "
  /\ Stored(disk) = ("s1" :> << " " >>)

(* a <= b for two progress values *)
FracLeq(a, b) == a.num * b.den <= b.num * a.den

(* the extraction of file i has ended without a failure *)
ExtractedAll(i) ==
  /\ pc[i] = "extracted"
  /\ files[i].readable
  /\ FileExtension(files[i].name) \in SupportedExtensions

(* C18: the progress values one extract_text call hands to its callback
   never decrease, every value lies in [0,1], and on a successful extraction
   the last value is 1.0. *)
C18_ProgressEndsAtOne ==
  \A i \in Indices :
    /\ \A j \in 1..Len(emitted) :
         /\ FracLeq(Frac(0, 1), emitted[j])
         /\ FracLeq(emitted[j], Frac(1, 1))
         /\ j > 1 => FracLeq(emitted[j - 1], emitted[j])
    /\ ExtractedAll(i) => emitted[Len(emitted)] = Frac(1, 1)

(* the statistics of the report are those of the results: the count, the
   mean, and three buckets that take every result exactly once *)
StatisticsRight ==
  LET stats == report.stats[1]
      scores == [i \in DOMAIN results |-> results[i].overall_score]
      InCompliant(i) == scores[i].num >= 80 * scores[i].den
      InNeedsImprovement(i) ==
        scores[i].num >= 60 * scores[i].den /\ scores[i].num < 80 * scores[i].den
      InNonCompliant(i) == scores[i].num < 60 * scores[i].den
  IN /\ report.raised = "none"
     /\ Len(report.stats) = 1
     /\ stats.total_files = Len(results)
     /\ stats.avg_score.num * SumOverall(results).den * Len(results)
          = SumOverall(results).num * stats.avg_score.den
     /\ stats.compliant = Cardinality({i \in DOMAIN results : InCompliant(i)})
     /\ stats.needs_improvement
          = Cardinality({i \in DOMAIN results : InNeedsImprovement(i)})
     /\ stats.non_compliant = Cardinality({i \in DOMAIN results : InNonCompliant(i)})
     /\ \A i \in DOMAIN results :
          Cardinality({b \in {"compliant", "needs improvement", "non-compliant"} :
             \/ b = "compliant" /\ InCompliant(i)
             \/ b = "needs improvement" /\ InNeedsImprovement(i)
             \/ b = "non-compliant" /\ InNonCompliant(i)}) = 1
     /\ stats.compliant + stats.needs_improvement + stats.non_compliant
          = stats.total_files

(* C19: for a non-empty list of results the summary statistics are the
   count, the mean of the overall scores and three buckets (>= 80, 60 to
   below 80, below 60) that take every result exactly once, so that the
   bucket counts sum to the count; computing them changes neither the
   results nor any other state. *)
C19_SummaryStatistics ==
  [][(report' # report /\ report'.options.include_summary /\ results # << >>) =>
       /\ StatisticsRight'
       /\ UNCHANGED << storeVars, managerVars, editVars, extractVars, scoreVars, appVars >>]_vars

C19_Witness ==
  /\ report.format = "display"
  /\ report.options.include_summary
  /\ Len(results) = 3
  /\ report.stats[1].compliant = 1
  /\ report.stats[1].needs_improvement = 1
  /\ report.stats[1].non_compliant = 1
  /\ \E i \in DOMAIN results : results[i].overall_score = [num |-> 80, den |-> 1]
  /\ \E i \in DOMAIN results : results[i].overall_score = [num |-> 60, den |-> 1]

(* C20: a Word or PDF report whose three include_* options are all false
   holds the title and the timestamp only (and the gap after them): no
   executive summary, no detail of a document or a section and no
   recommendation, whatever the results are. *)
C20_BareReport ==
  (/\ report.format \in {"word", "pdf"}
   /\ ~report.options.include_summary
   /\ ~report.options.include_details
   /\ ~report.options.include_recommendations) =>
    /\ report.raised = "none"
    /\ report.stats = << >>
    /\ report.blocks = TitleBlocks(report.format, report.now)
    /\ Len(report.blocks) = 3
    /\ report.blocks[1].text = << Lit("DSGVO Compliance Report") >>
    /\ report.blocks[2].text = << Lit("Generated on: "), Lit(report.now) >>
    /\ report.blocks[3].text \in {<< >>, << Num(20) >>}

C20_Witness ==
  /\ report.format = "pdf"
  /\ ~report.options.include_summary
  /\ ~report.options.include_details
  /\ ~report.options.include_recommendations
  /\ Len(results) = 2
  /\ AllRecommendations(results) = {"r1", "r2", "r3"}
  /\ Len(report.blocks) = 3

(* the items under the heading "Overall Recommendations", the last part of a
   report *)
RecommendationItems ==
  LET at == CHOOSE k \in DOMAIN report.blocks :
              report.blocks[k].text \in {<< Lit("Overall Recommendations") >>,
                                         << Lit("## Overall Recommendations") >>}
  IN SubSeq(report.blocks, at + 1, Len(report.blocks))

(* the recommendation occurs in a section of a document *)
OccursInResults(rec) ==
  \E i \in DOMAIN results : \E section \in DOMAIN results[i].section_results :
    \E j \in DOMAIN results[i].section_results[section].recommendations :
      results[i].section_results[section].recommendations[j] = rec

RecommendationTexts == {"r1", "r2", "r3", "r4"}

(* C21: with include_recommendations the report ends with the heading
   "Overall Recommendations" followed by one item for every recommendation
   that occurs in a section of a document of the results, each exactly once,
   and by no other item. *)
C21_RecommendationsAreSetUnion ==
  (/\ report # NoReport
   /\ report.options.include_recommendations
   /\ report.raised = "none") =>
    /\ \E k \in DOMAIN report.blocks :
         report.blocks[k].text \in {<< Lit("Overall Recommendations") >>,
                                    << Lit("## Overall Recommendations") >>}
    /\ \A j \in DOMAIN RecommendationItems :
         \E rec \in RecommendationTexts :
           /\ OccursInResults(rec)
           /\ RecommendationItems[j].text = << Lit("* "), Lit(rec) >>
    /\ \A rec \in RecommendationTexts :
         OccursInResults(rec) =>
           Cardinality({j \in DOMAIN RecommendationItems :
                          RecommendationItems[j].text = << Lit("* "), Lit(rec) >>}) = 1

C21_Witness ==
  /\ report.format = "word"
  /\ report.options.include_recommendations
  /\ report.raised = "none"
  /\ Len(results) = 3
  /\ Cardinality({i \in DOMAIN results : "r1" \in AllRecommendations(<< results[i] >>)}) >= 2
  /\ Len(RecommendationItems) = 3

(* the positions of process_single_file after its start and at its end *)
Finished == {"done", "caught", "raised"}

(* C22: in a batch of any size at most 3 documents are being processed at
   any moment; a document is taken from the queue once and never put back,
   so it is processed exactly once; and run_async_compliance_check returns
   only when every document is processed and has its result in the list. *)
C22_BoundedPool ==
  [][/\ Cardinality(Running') <= 3
     /\ \A i \in Indices :
          /\ (pc'[i] = "extract" /\ pc[i] # "extract") => pc[i] = "queued"
          /\ pc[i] \notin {"idle", "queued"} => pc'[i] # "queued"
          /\ pc[i] \in Finished => pc'[i] = pc[i]
          /\ calls'[i] <= 1
     /\ mainPc' = "returned" =>
          /\ \A i \in Indices : pc'[i] \in Finished /\ result'[i] # NoResult
          /\ Len(results') = Len(files)
          /\ \A i \in Indices : results'[i] = result'[i]]_vars

C22_Witness ==
  /\ Len(files) = 4
  /\ Running = {1, 2, 3}
  /\ pc[4] = "queued"
  /\ mainPc = "collect"

(* C23: no step of a batch, whatever the outcome for a document (scored,
   empty document, error) and however the workers interleave, changes the
   protocol mapping handed to check_compliance or the protocol file; every
   prompt is made of the whole protocol. *)
C23_ScoringOnlyReadsProtocol ==
  [][/\ protocol' = protocol
     /\ disk' = disk
     /\ cwd_disk' = cwd_disk
     /\ protocol_file' = protocol_file
     /\ \A i \in Indices :
          prompt'[i] # prompt[i] =>
            prompt'[i] = _create_analysis_prompt(text_content[i], ("s1" :> << "c1" >>),
                                              language, config.max_content_length)]_vars

C23_Witness ==
  /\ Len(files) = 4
  /\ pc[1] = "done" /\ outcome[1].kind = "raise"
  /\ pc[2] = "done" /\ result[2] = _create_empty_result(files[2].name, language)
  /\ pc[3] = "checked" /\ outcome[3].kind = "output"
  /\ pc[4] = "invoke" /\ prompt[4] # NoPrompt
  /\ protocol = ("s1" :> << "c1" >>)
  /\ disk = JsonFile(json_dump(protocol))

(* C27: the list run_async_compliance_check builds and returns is in
   submission order whatever order the workers finish in: its i-th element
   is the result of the i-th file and carries that file's name. *)
C27_SubmissionOrder ==
  /\ Len(results) <= Len(files)
  /\ \A k \in 1..Len(results) :
       /\ results[k].filename = files[k].name
       /\ results[k] = result[k]
       /\ \A j \in Indices : j # k => results[k].filename # files[j].name
  /\ mainPc = "returned" => Len(results) = Len(files)

(* the first file was the last to finish: its "Completed" is the last
   progress update *)
C27_Witness ==
  /\ mainPc = "returned"
  /\ Len(files) = 4
  /\ progress_tracker.current_step = 20
  /\ Len(results) = 4
  /\ results[1].filename = << "a", ".", "pdf" >>
  /\ results[4].filename = << "d", ".", "pdf" >>

(* every file of the batch is processed *)
AllProcessed == mainPc # "start" /\ \A i \in Indices : pc[i] \in Finished

(* C26: once every file of a non-empty batch is processed, the display
   thread sooner or later reads current_step >= total_steps and leaves its
   loop. *)
C26_DisplayThreadStops == AllProcessed ~> display.pc = "stopped"

(* the configuration errors: the key is missing or does not start with
   "sk-", the temperature is outside [0,2], the upload size limit or the
   token budget is not positive, no file type is allowed, or the alternate
   endpoint has no http:// or https:// scheme *)
ConfigurationError(c) ==
  \/ c.openai_api_key = << >>
  \/ c.openai_api_key[1] # "sk-"
  \/ c.temperature < 0
  \/ c.temperature > 20
  \/ c.max_file_size < 1
  \/ c.max_tokens < 1
  \/ Len(c.allowed_file_types) = 0
  \/ c.openai_base_url # << >> /\ c.openai_base_url[1] \notin {"http://", "https://"}

(* C24: with a configuration error the only step the script takes is to
   show the error and halt: no page is shown, no document is accepted and
   no batch is started. *)
C24_ConfigErrorIsFatal ==
  [][ConfigurationError(config) =>
       /\ app.pc = "boot"
       /\ app'.pc = "halted"
       /\ app'.page = "none"
       /\ app'.shown[1] \in {"Configuration error: ", "Proxy configuration error: "}
       /\ app'.shown[2] \notin {"ok", ""}
       /\ files' = << >>
       /\ mainPc' = "start"
       /\ config' = config]_vars

C24_Witness ==
  /\ app.pc = "halted"
  /\ config.temperature = 21
  /\ config.openai_api_key = << "sk-", "key" >>
  /\ config.max_file_size > 0
  /\ app.shown = << "Configuration error: ", "TEMPERATURE must be between 0.0 and 2.0" >>
  /\ files = << >>

(* the step is a save from the Protocol Management page, not a direct call
   of save_protocol *)
PageSaves ==
  /\ store'.op = "save_protocol"
  /\ store'.arg \notin StoreProtocols
  /\ app'.shown # << >>

(* C25: when the save of the Protocol Management page fails (save_protocol
   returns False) the page shows a message of the failure and does not show
   the message of success. *)
C25_FailedPageSaveIsShown ==
  [][(PageSaves /\ store'.ret = FALSE) =>
       /\ "Protocol saved successfully!" \notin Range(app'.shown)
       /\ \E j \in DOMAIN app'.shown : app'.shown[j] # "Protocol saved successfully!"]_vars

(* C28: a save from the Protocol Management page that succeeds leaves a
   file whose sections are exactly the eight section names of the page:
   every other section of the file as it was, and every section of the
   built-in default protocol, is gone. *)
C28_PageSaveWritesFixedSections ==
  [][(PageSaves /\ store'.ret = TRUE) =>
       /\ disk' = JsonFile(json_dump(store'.arg))
       /\ DOMAIN Stored(disk') = FixedSections
       /\ Cardinality(DOMAIN Stored(disk')) = 8
       /\ \A section \in DOMAIN Stored(disk) \ FixedSections :
            section \notin DOMAIN Stored(disk')
       /\ \A section \in DOMAIN _get_default_protocol :
            section \notin DOMAIN Stored(disk')]_vars

C28_Witness ==
  /\ store.op = "save_protocol"
  /\ store.ret = TRUE
  /\ app.shown = << "Protocol saved successfully!" >>
  /\ DOMAIN Stored(disk) = FixedSections
  /\ Stored(disk)["Legal Basis"] = << "c1" >>
  /\ Stored(disk)["Data Security"] = << >>

(* how often the list holds the item *)
Count(seq, x) == Cardinality({i \in DOMAIN seq : seq[i] = x})

(* the section of the protocol holds the criterion *)
Holds(p, section, criterion) ==
  /\ section \in DOMAIN p
  /\ \E i \in DOMAIN p[section] : p[section][i] = criterion

(* caller k starts its call in this step *)
Calls(k) == callers[k].op = "none" /\ callers'[k].op # "none"

(* C29: add_criterion with a criterion the section holds, and
   remove_criterion with a section or a criterion the protocol does not
   hold, return False in the step that loaded the protocol and write
   nothing; add_criterion goes on to save only a section that holds the
   criterion once; remove_criterion goes on to save the protocol with one
   occurrence of the criterion less, every other criterion and every
   section kept, and a save that succeeds leaves exactly that in the
   file. *)
C29_FailedPreconditionDoesNotWrite ==
  [][\A k \in CallerIds :
       /\ (Calls(k) /\ LoadRaises(TheFile) = "none" /\ IsDict(TheFile)) =>
            LET loaded == LoadValue(TheFile)
                call == callers'[k]
                present == Holds(loaded, call.section, call.criterion)
            IN /\ disk' = disk /\ cwd_disk' = cwd_disk
               /\ (call.op = "add_criterion" /\ present) =>
                    call.pc = "idle" /\ call.raised = "none" /\ call.ret = FALSE
               /\ (call.op = "remove_criterion" /\ ~present) =>
                    call.pc = "idle" /\ call.raised = "none" /\ call.ret = FALSE
               /\ (call.op = "add_criterion" /\ ~present) =>
                    /\ call.pc = "save"
                    /\ Count(call.local[call.section], call.criterion) = 1
               /\ (call.op = "remove_criterion" /\ present) =>
                    /\ call.pc = "save"
                    /\ DOMAIN call.local = DOMAIN loaded
                    /\ \A section \in DOMAIN loaded :
                         section # call.section => call.local[section] = loaded[section]
                    /\ Len(call.local[call.section]) = Len(loaded[call.section]) - 1
                    /\ \A x \in Criteria :
                         Count(call.local[call.section], x)
                           = Count(loaded[call.section], x)
                               - (IF x = call.criterion THEN 1 ELSE 0)
       /\ SavesNow(k) =>
            /\ disk' = JsonFile(json_dump(callers[k].local))
            /\ callers[k].section \in DOMAIN Stored(disk')]_vars

C29_Witness ==
  /\ callers[1].op = "add_criterion"
  /\ callers[1].pc = "idle" /\ callers[1].raised = "none" /\ callers[1].ret = FALSE
  /\ callers[1].section = "s1" /\ callers[1].criterion = "c1"
  /\ callers[2].op = "remove_criterion"
  /\ callers[2].pc = "idle" /\ callers[2].raised = "none" /\ callers[2].ret = TRUE
  /\ callers[2].section = "s1" /\ callers[2].criterion = "c1"
  /\ Stored(disk) = ("s1" :> << >>)

(* C30: extract_text of a text upload whose bytes are valid UTF-8 returns
   the whole decoded content, stripped, wherever the ends of the chunks
   fall; it is not "" unless the file is blank. *)
C30_TxtDecodedWhole ==
  \A i \in Indices :
    pc[i] = "extracted" =>
      /\ text_content[i] = StripRuns(files[i].bytes)
      /\ StripRuns(files[i].bytes) # << >> => text_content[i] # << >>

====
